---------------------------- MODULE Spec2Model ----------------------------
(***************************************************************************)
(* Model of the Pattaasu scoring and validation engine of Project          *)
(* Sentinel: src/src/analysis/models.py, src/src/analysis/pattaasu.py and  *)
(* src/src/analysis/deep_analysis.py; of the LLM provider manager,         *)
(* src/src/llm/manager.py and src/src/llm/config.py; and of the ingestion  *)
(* task fetch_company_metrics, src/src/ingestion/tasks.py and handlers.py. *)
(*                                                                         *)
(* Numbers.  Decimal ratios (debt_to_equity) are held in hundredths,       *)
(* percentages in whole percent, money in whole units.  The weighted total *)
(* of generate_rating is held in two-hundredths (total * 200), the common  *)
(* denominator of the weights 0.50, 0.25, 0.15, 0.10 and of the sentiment  *)
(* rescaling (raw + 100) / 2, so every value the function computes from    *)
(* integer inputs is an integer here.  The code computes the total in      *)
(* binary64; on the inputs enumerated below the binary64 total equals the  *)
(* exact total, and on the grids one step finer the two give the same      *)
(* rating and confidence.                                                  *)
(*                                                                         *)
(* A raw input value of a metrics mapping is a tagged value: None (the key *)
(* is absent or holds None) or Num(n).                                     *)
(***************************************************************************)
EXTENDS Integers, Sequences, FiniteSets, TLC

VARIABLES
    metrics,      \* the raw mapping handed to an entry point
    op,           \* which entry point has run on it: "none" at first
    ret,          \* what that entry point returned or raised
    fundamental,  \* generate_rating's FundamentalScore argument, or None
    technical,    \* generate_rating's TechnicalScore argument, or None
    sentiment,    \* generate_rating's SentimentScore argument, or None
    butterfly,    \* generate_rating's ButterflyEffect argument, or None
    rated,        \* the locals and the result of the last generate_rating, or NotRun
    cases,        \* what generate_bull_bear_cases returned, or NotRun
    analyzers,    \* the DeepAnalyzer instances: analyzers[a].llm
    ncalls,       \* how many generate_rating calls a sequence of calls has made
    history,      \* the calls of that sequence: who was called, with what, the result
    fin,          \* the FinancialMetrics handed to the risk assessor
    pattaasu,     \* the PattaasuMetrics handed to the risk assessor, or None
    risk,         \* the RiskAssessment it returned, or NotRun
    d_e_read,     \* fin.debt_to_equity as read since fin last changed, or NotRun
    analyzer,     \* the PattaasuAnalyzer of full_analysis: analyzer.llm_manager
    company_description,  \* full_analysis's company_description argument
    moat_reply,   \* what the manager's answer to the moat prompt parsed to, or NotRun
    recommendation,  \* what generate_recommendation returned, or NotRun
    config,       \* the LLMConfig of the manager: default, fallback, enabled providers
    is_available, \* the providers whose instance reports is_available
    _health_status,  \* LLMManager._health_status: provider -> bool, a dict
    request,      \* the manager call in progress: its arguments, passes and outcome
    task          \* the fetch_company_metrics task of one ticker: request and result

vars == <<metrics, op, ret, fundamental, technical, sentiment, butterfly, rated,
          cases, analyzers, ncalls, history, fin, pattaasu, risk, d_e_read,
          analyzer, company_description, moat_reply, recommendation,
          config, is_available, _health_status, request, task>>

analysisVars == <<analyzer, company_description, moat_reply, recommendation>>
llmVars == <<config, is_available, _health_status, request>>
serviceVars == <<analysisVars, llmVars, task>>

riskVars == <<fin, pattaasu, risk, d_e_read>>

validateVars == <<metrics, op, ret>>
argVars == <<fundamental, technical, sentiment, butterfly>>
ratingVars == <<fundamental, technical, sentiment, butterfly, rated, cases,
                analyzers, ncalls, history>>

---------------------------------------------------------------------------
(* Values *)

None == [k |-> "none"]
Num(n) == [k |-> "num", v |-> n]
NotRun == [k |-> "notrun"]
\* a value that does not parse as a number, such as the string "N/A"
Str(s) == [k |-> "str", v |-> s]
\* the value of a key the mapping does not hold
Absent == [k |-> "absent"]

IsNone(x) == x.k = "none"

\* An exception that leaves a call.
Raise(exc) == [k |-> "raise", exc |-> exc]
IsRaise(x) == "exc" \in DOMAIN x

\* mapping.get(key, default)
get(mapping, key, default) ==
    IF key \notin DOMAIN mapping \/ mapping[key] = Absent THEN default ELSE mapping[key]

\* Decimal(str(value)) for a value that is not None: the Decimal, or the
\* decimal.InvalidOperation that the constructor raises for a string that
\* is not a number.
Decimal(value) ==
    IF value.k = "str" THEN Raise("InvalidOperation") ELSE Num(value.v)

\* Decimal(str(x)) of a numeric raw value (pattaasu.py:74), and pydantic's
\* coercion of a numeric raw value to a Decimal field (models.py:147).
DecimalOf(x) == x.v

\* bounds of the enumerated inputs
MaxDE5 == 30
MaxPledge10 == 11
MaxFcf100 == 1

\* debt_to_equity in hundredths: -0.05, 0, 0.05, ... MaxDE5 * 0.05
DEValues == {Num(5 * i) : i \in -1..MaxDE5} \cup {None}
\* promoter_pledging_pct in percent: -10, 0, 10, ... MaxPledge10 * 10
PledgeValues == {Num(10 * i) : i \in -1..MaxPledge10} \cup {None}
\* a free cash flow year: -100, 0, 100, ... MaxFcf100 * 100
FcfValues == {Num(100 * i) : i \in -1..MaxFcf100} \cup {None}
MoatRating == {"wide", "narrow", "none"}

MaxFundScore == 100
MaxTech == 10
MaxDebt == 12
MaxEquity10 == 1
MaxCash == 3
MaxLiab10 == 1
MaxSent == 2
MaxGeo == 2
NumAnalyzers == 2
MaxCalls == 3

Analyzers == 1..NumAnalyzers
\* DeepAnalyzer(llm_manager): self.llm is the manager or None
DeepAnalyzer(llm_manager) == [k |-> "DeepAnalyzer", llm |-> llm_manager]
LLMManager == [k |-> "LLMManager"]

\* FundamentalScore.total_score: 0 .. MaxFundScore
FundScores == 0..MaxFundScore
\* TechnicalScore.strength: MaxTech + 1 values spread over 0 .. 100
TechValues == {(100 \div MaxTech) * i : i \in 0..MaxTech}
\* SentimentScore.overall_sentiment: values spread over -100 .. 100
SentValues == {(100 \div MaxSent) * i : i \in -MaxSent..MaxSent}
\* ButterflyEffect.geo_score: values spread over -50 .. 50
GeoValues == {(50 \div MaxGeo) * i : i \in -MaxGeo..MaxGeo}

FundamentalScore(total, debt_ok, fcf_ok) ==
    [k |-> "FundamentalScore", total_score |-> total,
     pattaasu_debt_ok |-> debt_ok, pattaasu_fcf_ok |-> fcf_ok]
TechnicalScore(strength) == [k |-> "TechnicalScore", strength |-> strength]
SentimentScore(overall) == [k |-> "SentimentScore", overall_sentiment |-> overall]
ButterflyEffect(geo) == [k |-> "ButterflyEffect", geo_score |-> geo]

---------------------------------------------------------------------------
(* PattaasuMetrics: src/src/analysis/models.py *)

\* The Pattaasu limit Decimal("1.0"), in hundredths.
DELimit == 100

\* validate_debt_to_equity: the errors it raises for a Decimal v (hundredths).
validate_debt_to_equity(v) ==
    IF v >= DELimit THEN <<[loc |-> "debt_to_equity", type |-> "exceeds_limit"]>>
    ELSE IF v < 0 THEN <<[loc |-> "debt_to_equity", type |-> "negative"]>>
    ELSE <<>>

\* a variant that lets any pledging up to 100% through
validate_promoter_pledging_lax(v) == <<>>

\* validate_promoter_pledging: the errors it raises for a Decimal v (percent).
validate_promoter_pledging(v) ==
    IF v > 0 THEN <<[loc |-> "promoter_pledging_pct", type |-> "pledging_detected"]>>
    ELSE <<>>

\* Percentage = Annotated[Decimal, Field(ge=0, le=100)]: the constraint errors.
Percentage(loc, v) ==
    IF v < 0 THEN <<[loc |-> loc, type |-> "greater_than_equal"]>>
    ELSE IF v > 100 THEN <<[loc |-> loc, type |-> "less_than_equal"]>>
    ELSE <<>>

\* A required field (Field(...)) whose key is absent.
Missing(loc) == <<[loc |-> loc, type |-> "missing"]>>

\* PositiveDecimal = Annotated[Decimal, Field(ge=0)]: the constraint errors.
PositiveDecimal(loc, v) ==
    IF v < 0 THEN <<[loc |-> loc, type |-> "greater_than_equal"]>> ELSE <<>>

\* A raw value that pydantic coerces to a Decimal.
Parses(x) == x.k = "num"

\* The errors of a Decimal field whose raw value x is no Decimal: a missing
\* key when the field is required, None or an unparseable value where a
\* Decimal is expected.
ParseErrors(loc, x, required) ==
    IF x = Absent THEN (IF required THEN Missing(loc) ELSE <<>>)
    ELSE IF IsNone(x) THEN <<[loc |-> loc, type |-> "decimal_type"]>>
    ELSE IF x.k = "str" THEN <<[loc |-> loc, type |-> "decimal_parsing"]>>
    ELSE <<>>

\* debt_to_equity: Decimal with validate_debt_to_equity
DebtToEquityField(x) ==
    IF Parses(x) THEN validate_debt_to_equity(DecimalOf(x))
    ELSE ParseErrors("debt_to_equity", x, TRUE)

\* total_debt: PositiveDecimal with a default
TotalDebtField(x) ==
    IF Parses(x) THEN PositiveDecimal("total_debt", DecimalOf(x))
    ELSE ParseErrors("total_debt", x, FALSE)

\* promoter_pledging_pct: Percentage with validate_promoter_pledging, which
\* runs only on a value that passed the constraints of Percentage
PromoterPledgingField(x) ==
    IF ~Parses(x) THEN ParseErrors("promoter_pledging_pct", x, TRUE)
    ELSE IF Percentage("promoter_pledging_pct", DecimalOf(x)) # <<>>
         THEN Percentage("promoter_pledging_pct", DecimalOf(x))
    ELSE validate_promoter_pledging(DecimalOf(x))

\* The field stage of PattaasuMetrics(**m): every field is validated in the
\* order of declaration and the errors of all fields are collected; a field
\* validator runs only on a value that passed the field's own constraints.
FieldErrors(m) ==
    DebtToEquityField(get(m, "debt_to_equity", Absent))
    \o TotalDebtField(get(m, "total_debt", Absent))
    \o ParseErrors("total_equity", get(m, "total_equity", Absent), FALSE)
    \o PromoterPledgingField(get(m, "promoter_pledging_pct", Absent))
    \o ParseErrors("free_cash_flow_year1", get(m, "free_cash_flow_year1", Absent), TRUE)
    \o ParseErrors("free_cash_flow_year2", get(m, "free_cash_flow_year2", Absent), TRUE)
    \o ParseErrors("free_cash_flow_year3", get(m, "free_cash_flow_year3", Absent), TRUE)

\* validate_cash_flow_consistency: the years whose FCF is <= 0, and the one
\* error that names them all.
negative_years(f1, f2, f3) ==
    (IF f1 <= 0 THEN <<"Year 1">> ELSE <<>>)
    \o (IF f2 <= 0 THEN <<"Year 2">> ELSE <<>>)
    \o (IF f3 <= 0 THEN <<"Year 3">> ELSE <<>>)

validate_cash_flow_consistency(f1, f2, f3) ==
    IF negative_years(f1, f2, f3) # <<>>
    THEN <<[loc |-> "model", type |-> "negative_fcf", years |-> negative_years(f1, f2, f3)]>>
    ELSE <<>>

\* a variant whose debt ladder includes its upper ends
calculate_pattaasu_score_inclusive(de, pledging, f1, f2, f3, moat) ==
    (IF de = 0 THEN 30
     ELSE IF de <= 10 THEN 25
     ELSE IF de <= 30 THEN 20
     ELSE IF de <= 50 THEN 15
     ELSE 10)
    + (IF pledging = 0 THEN 25 ELSE 0)
    + (IF f1 + f2 + f3 > 0 THEN 25 ELSE 0)
    + (CASE moat = "wide" -> 20 [] moat = "narrow" -> 10 [] OTHER -> 0)

\* a variant whose debt ladder has two steps exchanged
calculate_pattaasu_score_exchanged(de, pledging, f1, f2, f3, moat) ==
    (IF de = 0 THEN 30
     ELSE IF de < 10 THEN 25
     ELSE IF de < 30 THEN 15
     ELSE IF de < 50 THEN 20
     ELSE 10)
    + (IF pledging = 0 THEN 25 ELSE 0)
    + (IF f1 + f2 + f3 > 0 THEN 25 ELSE 0)
    + (CASE moat = "wide" -> 20 [] moat = "narrow" -> 10 [] OTHER -> 0)

\* a variant whose debt ladder gives no points from 0.5 upwards
calculate_pattaasu_score_no_floor(de, pledging, f1, f2, f3, moat) ==
    (IF de = 0 THEN 30
     ELSE IF de < 10 THEN 25
     ELSE IF de < 30 THEN 20
     ELSE IF de < 50 THEN 15
     ELSE 0)
    + (IF pledging = 0 THEN 25 ELSE 0)
    + (IF f1 + f2 + f3 > 0 THEN 25 ELSE 0)
    + (CASE moat = "wide" -> 20 [] moat = "narrow" -> 10 [] OTHER -> 0)

\* calculate_pattaasu_score.  avg_fcf = (f1 + f2 + f3) / 3 is positive
\* exactly when the sum is.
calculate_pattaasu_score(de, pledging, f1, f2, f3, moat) ==
    (IF de = 0 THEN 30
     ELSE IF de < 10 THEN 25
     ELSE IF de < 30 THEN 20
     ELSE IF de < 50 THEN 15
     ELSE 10)
    + (IF pledging = 0 THEN 25 ELSE 0)
    + (IF f1 + f2 + f3 > 0 THEN 25 ELSE 0)
    + (CASE moat = "wide" -> 20 [] moat = "narrow" -> 10 [] OTHER -> 0)

\* moat_rating: MoatRating = Field(default=MoatRating.NONE)
moat_rating(m) == IF "moat_rating" \in DOMAIN m THEN m.moat_rating ELSE "none"

\* The moat_reasoning of a mapping, "" by default.
moat_reasoning(m) ==
    IF "moat_reasoning" \in DOMAIN m THEN m.moat_reasoning ELSE ""

\* PattaasuMetrics(**m): [ok |-> TRUE, obj |-> the object] or
\* [ok |-> FALSE, errors |-> the errors of the ValidationError].  The model
\* validators (mode="after") run, in the order of definition, only when the
\* field stage collected no error.
PattaasuMetrics(m) ==
    IF FieldErrors(m) # <<>> THEN [ok |-> FALSE, errors |-> FieldErrors(m)]
    ELSE LET de == DecimalOf(m.debt_to_equity)
             pl == DecimalOf(m.promoter_pledging_pct)
             f1 == DecimalOf(m.free_cash_flow_year1)
             f2 == DecimalOf(m.free_cash_flow_year2)
             f3 == DecimalOf(m.free_cash_flow_year3)
         IN  IF validate_cash_flow_consistency(f1, f2, f3) # <<>>
             THEN [ok |-> FALSE, errors |-> validate_cash_flow_consistency(f1, f2, f3)]
             ELSE [ok |-> TRUE,
                   obj |-> [k |-> "PattaasuMetrics",
                            debt_to_equity |-> de,
                            promoter_pledging_pct |-> pl,
                            free_cash_flow_year1 |-> f1,
                            free_cash_flow_year2 |-> f2,
                            free_cash_flow_year3 |-> f3,
                            moat_rating |-> moat_rating(m),
                            moat_reasoning |-> moat_reasoning(m),
                            pattaasu_score |->
                                calculate_pattaasu_score(de, pl, f1, f2, f3, moat_rating(m))]]

\* The property PattaasuMetrics.is_pattaasu_compliant.
is_pattaasu_compliant(p) ==
    /\ p.debt_to_equity < DELimit
    /\ p.promoter_pledging_pct = 0
    /\ p.free_cash_flow_year1 > 0
    /\ p.free_cash_flow_year2 > 0
    /\ p.free_cash_flow_year3 > 0

---------------------------------------------------------------------------
(* FinancialMetrics: src/src/analysis/models.py *)

\* A Decimal quotient n / d, d > 0, kept as a fraction.
Ratio(n, d) == [k |-> "ratio", n |-> n, d |-> d]
\* r < n / d, r > n / d for a fraction r and d > 0
Less(r, n, d) == r.n * d < n * r.d
Greater(r, n, d) == r.n * d > n * r.d

\* a variant that keeps the sentinel for negative equity only
debt_to_equity_negative_only(m) ==
    IF IsNone(m.total_debt) \/ IsNone(m.total_equity) THEN None
    ELSE IF m.total_equity.v < 0 THEN Ratio(99999, 100)
    ELSE IF m.total_equity.v = 0 THEN Raise("ZeroDivisionError")
    ELSE Ratio(m.total_debt.v, m.total_equity.v)

\* The property FinancialMetrics.debt_to_equity: None when debt or equity
\* is unknown, Decimal("999.99") when equity <= 0, else debt / equity.
debt_to_equity(m) ==
    IF IsNone(m.total_debt) \/ IsNone(m.total_equity) THEN None
    ELSE IF m.total_equity.v <= 0 THEN Ratio(99999, 100)
    ELSE Ratio(m.total_debt.v, m.total_equity.v)

---------------------------------------------------------------------------
(* PattaasuAnalyzer: src/src/analysis/pattaasu.py *)

\* The keys quick_validate looks up, in the order of its checks.
QuickKeys ==
    <<"debt_to_equity", "promoter_pledging_pct",
      "free_cash_flow_year1", "free_cash_flow_year2", "free_cash_flow_year3">>

\* The text that names the year in the entry quick_validate appends for a
\* free cash flow that is not positive (the values are left out of the text).
NegativeFcfIn ==
    <<"Negative FCF in Year 1", "Negative FCF in Year 2",
      "Negative FCF in Year 3">>

\* quick_validate returning after the first violation it finds.
quick_validate_first(m) ==
    LET d_e == get(m, "debt_to_equity", None)
        pledging == get(m, "promoter_pledging_pct", None)
        fcf_years == [i \in 1..3 |-> get(m, QuickKeys[i + 2], None)]
        bad(i) == ~IsNone(fcf_years[i]) /\ DecimalOf(fcf_years[i]) <= 0
        errors ==
            IF ~IsNone(d_e) /\ DecimalOf(d_e) >= DELimit
            THEN <<"Debt-to-Equity">>
            ELSE IF ~IsNone(pledging) /\ DecimalOf(pledging) > 0
            THEN <<"Promoter pledging">>
            ELSE IF bad(1) THEN <<NegativeFcfIn[1]>>
            ELSE IF bad(2) THEN <<NegativeFcfIn[2]>>
            ELSE IF bad(3) THEN <<NegativeFcfIn[3]>>
            ELSE <<>>
    IN  [is_compliant |-> Len(errors) = 0, errors |-> errors]

\* quick_validate(metrics): (is_compliant, errors), or the exception of the
\* first Decimal(str(...)) that fails; every value that is not None is
\* converted.
quick_validate(m) ==
    LET d_e == get(m, "debt_to_equity", None)
        pledging == get(m, "promoter_pledging_pct", None)
        fcf_years == [i \in 1..3 |-> get(m, QuickKeys[i + 2], None)]
        fcf_error(i) ==
            IF ~IsNone(fcf_years[i]) /\ DecimalOf(fcf_years[i]) <= 0
            THEN <<NegativeFcfIn[i]>> ELSE <<>>
        errors ==
            (IF ~IsNone(d_e) /\ DecimalOf(d_e) >= DELimit
             THEN <<"Debt-to-Equity">> ELSE <<>>)
            \o (IF ~IsNone(pledging) /\ DecimalOf(pledging) > 0
                THEN <<"Promoter pledging">> ELSE <<>>)
            \o fcf_error(1) \o fcf_error(2) \o fcf_error(3)
    IN  IF \E i \in 1..5 : get(m, QuickKeys[i], None).k = "str"
        THEN Raise("InvalidOperation")
        ELSE [is_compliant |-> Len(errors) = 0, errors |-> errors]

\* Python's truth value of an optional Decimal: None and 0 are false.
Truthy(x) == ~IsNone(x) /\ x.v # 0

\* a variant that reads an unknown D/E as low leverage
leverage_unknown_low(d_e) ==
    IF IsNone(d_e) THEN [level |-> "low", factors |-> <<>>, mitigants |-> <<>>]
    ELSE IF Less(d_e, 3, 10)
         THEN [level |-> "low", factors |-> <<>>, mitigants |-> <<"Low leverage">>]
    ELSE IF Less(d_e, 7, 10) THEN [level |-> "medium", factors |-> <<>>, mitigants |-> <<>>]
    ELSE IF Less(d_e, 10, 10)
         THEN [level |-> "high", factors |-> <<"Elevated leverage">>, mitigants |-> <<>>]
    ELSE [level |-> "critical", factors |-> <<"Excessive leverage">>, mitigants |-> <<>>]

\* Leverage risk, with the mitigant or risk factor its branch appends.
leverage(d_e) ==
    IF IsNone(d_e) THEN [level |-> "medium", factors |-> <<>>, mitigants |-> <<>>]
    ELSE IF Less(d_e, 3, 10)
         THEN [level |-> "low", factors |-> <<>>, mitigants |-> <<"Low leverage">>]
    ELSE IF Less(d_e, 7, 10) THEN [level |-> "medium", factors |-> <<>>, mitigants |-> <<>>]
    ELSE IF Less(d_e, 10, 10)
         THEN [level |-> "high", factors |-> <<"Elevated leverage">>, mitigants |-> <<>>]
    ELSE [level |-> "critical", factors |-> <<"Excessive leverage">>, mitigants |-> <<>>]

\* Liquidity risk from cash_and_equivalents / total_liabilities.
liquidity(m) ==
    IF Truthy(m.cash_and_equivalents) /\ Truthy(m.total_liabilities)
    THEN LET cash_ratio == Ratio(m.cash_and_equivalents.v, m.total_liabilities.v)
         IN  IF Greater(cash_ratio, 2, 10)
             THEN [level |-> "low", factors |-> <<>>, mitigants |-> <<"Strong cash position">>]
             ELSE IF Greater(cash_ratio, 1, 10)
             THEN [level |-> "medium", factors |-> <<>>, mitigants |-> <<>>]
             ELSE [level |-> "high", factors |-> <<"Limited liquidity buffer">>,
                   mitigants |-> <<>>]
    ELSE [level |-> "medium", factors |-> <<>>, mitigants |-> <<>>]

\* a variant that does not look at the pledging
governance_any_pledging(p) ==
    IF ~IsNone(p)
    THEN [level |-> "low", factors |-> <<>>, mitigants |-> <<"Zero promoter pledging">>]
    ELSE [level |-> "medium", factors |-> <<>>, mitigants |-> <<>>]

\* Governance risk from the Pattaasu metrics, when given.
governance(p) ==
    IF ~IsNone(p)
    THEN IF p.promoter_pledging_pct > 0
         THEN [level |-> "high", factors |-> <<"Promoter pledging">>, mitigants |-> <<>>]
         ELSE [level |-> "low", factors |-> <<>>, mitigants |-> <<"Zero promoter pledging">>]
    ELSE [level |-> "medium", factors |-> <<>>, mitigants |-> <<>>]

\* risk_levels.count(level)
CountLevel(risk_levels, level) ==
    Cardinality({i \in DOMAIN risk_levels : risk_levels[i] = level})

\* a variant that takes the worst of the levels
overall_risk_worst(risk_levels) ==
    IF CountLevel(risk_levels, "critical") >= 1 THEN "critical"
    ELSE IF CountLevel(risk_levels, "high") >= 1 THEN "high"
    ELSE IF CountLevel(risk_levels, "medium") >= 1 THEN "medium"
    ELSE "low"

\* "Determine overall risk" from risk_levels = [leverage, liquidity, governance].
overall_risk(risk_levels) ==
    IF CountLevel(risk_levels, "critical") >= 1 THEN "critical"
    ELSE IF CountLevel(risk_levels, "high") >= 2 THEN "high"
    ELSE IF CountLevel(risk_levels, "high") >= 1 THEN "medium"
    ELSE IF CountLevel(risk_levels, "low") >= 2 THEN "low"
    ELSE "medium"

\* calculate_risk_assessment(metrics, pattaasu): the RiskAssessment, whose
\* market_risk and sector_risk keep the defaults of the model class.
calculate_risk_assessment(m, p) ==
    LET lev == leverage(debt_to_equity(m))
        liq == liquidity(m)
        gov == governance(p)
    IN  [k |-> "RiskAssessment",
         overall_risk |-> overall_risk(<<lev.level, liq.level, gov.level>>),
         leverage_risk |-> lev.level,
         liquidity_risk |-> liq.level,
         governance_risk |-> gov.level,
         market_risk |-> "medium",
         sector_risk |-> "medium",
         risk_factors |-> lev.factors \o liq.factors \o gov.factors,
         mitigants |-> lev.mitigants \o liq.mitigants \o gov.mitigants]

\* validate_pattaasu(metrics): the object, or None when construction raised
\* (the ValidationError is logged and dropped).
validate_pattaasu(m) ==
    IF PattaasuMetrics(m).ok THEN PattaasuMetrics(m).obj ELSE None

---------------------------------------------------------------------------
(* FinancialMetrics from a raw mapping, and full_analysis *)

\* The errors of one "PositiveDecimal | None" and one "Decimal | None" field
\* whose raw value is x: None and an absent key give the field None.
OptionalPositiveDecimal(loc, x) ==
    IF Parses(x) THEN PositiveDecimal(loc, DecimalOf(x))
    ELSE IF x.k = "str" THEN <<[loc |-> loc, type |-> "decimal_parsing"]>>
    ELSE <<>>
OptionalDecimal(loc, x) ==
    IF x.k = "str" THEN <<[loc |-> loc, type |-> "decimal_parsing"]>> ELSE <<>>

\* the field of the object: None, or the Decimal
OptionalDecimalValue(x) == IF x = Absent \/ IsNone(x) THEN None ELSE Num(DecimalOf(x))

\* FinancialMetrics(ticker=..., **m): [ok |-> TRUE, obj |-> the object] or
\* [ok |-> FALSE, errors |-> the errors of the ValidationError].  Keys that
\* are not fields of the class are ignored.
FinancialMetrics(m) ==
    LET errors ==
            OptionalPositiveDecimal("total_liabilities", get(m, "total_liabilities", Absent))
            \o OptionalDecimal("total_equity", get(m, "total_equity", Absent))
            \o OptionalPositiveDecimal("total_debt", get(m, "total_debt", Absent))
            \o OptionalPositiveDecimal("cash_and_equivalents",
                                       get(m, "cash_and_equivalents", Absent))
    IN  IF errors # <<>> THEN [ok |-> FALSE, errors |-> errors]
        ELSE [ok |-> TRUE,
              obj |-> [k |-> "FinancialMetrics",
                       total_debt |-> OptionalDecimalValue(get(m, "total_debt", Absent)),
                       total_equity |-> OptionalDecimalValue(get(m, "total_equity", Absent)),
                       cash_and_equivalents |->
                           OptionalDecimalValue(get(m, "cash_and_equivalents", Absent)),
                       total_liabilities |->
                           OptionalDecimalValue(get(m, "total_liabilities", Absent))]]

\* {k: v for k, v in financial_data.items() if v is not None}
WithoutNone(financial_data) ==
    [key \in DOMAIN financial_data |->
        IF IsNone(financial_data[key]) THEN Absent ELSE financial_data[key]]

\* pattaasu_data: each get of full_analysis with its default.
pattaasu_data(financial_data) ==
    [debt_to_equity |-> get(financial_data, "debt_to_equity", Num(0)),
     total_debt |-> get(financial_data, "total_debt", Num(0)),
     total_equity |-> get(financial_data, "total_equity", Num(1)),
     promoter_pledging_pct |-> get(financial_data, "promoter_pledging_pct", Num(0)),
     free_cash_flow_year1 |-> get(financial_data, "free_cash_flow_year1", Num(0)),
     free_cash_flow_year2 |-> get(financial_data, "free_cash_flow_year2", Num(0)),
     free_cash_flow_year3 |-> get(financial_data, "free_cash_flow_year3", Num(0))]

\* PattaasuAnalyzer(llm_manager): self.llm_manager is the manager or None.
\* An LLMManager defines no truth value of its own, so a manager is true.
NoLLM == [llm_manager |-> None]
WithLLM == [llm_manager |-> [k |-> "LLMManager"]]

\* What analyze_moat_with_llm returns with a manager: the rating and the
\* reasoning of the parsed reply, or MoatRating.NONE with a note when the
\* reply holds no JSON object or the call or the parsing raised (every
\* Exception is caught).
MoatResults ==
    [rating : MoatRating, reasoning : {"", "Pricing power"}]
    \cup [rating : {"none"},
          reasoning : {"Could not parse moat analysis", "Analysis error"}]

\* analyze_moat_with_llm(ticker, company_description, md_and_a_text), reply
\* being what the manager's answer parses to.
analyze_moat_with_llm(self, reply) ==
    IF IsNone(self.llm_manager)
    THEN [rating |-> "none", reasoning |-> "LLM not available for moat analysis"]
    ELSE reply

\* full_analysis with a back-fill that runs the score calculation again
full_analysis_rescoring(self, financial_data, description, reply) ==
    IF ~FinancialMetrics(WithoutNone(financial_data)).ok
    THEN Raise("ValidationError")
    ELSE LET m == FinancialMetrics(WithoutNone(financial_data)).obj
             p == validate_pattaasu(pattaasu_data(financial_data))
             analysed == ~IsNone(self.llm_manager) /\ description # ""
             moat_result == analyze_moat_with_llm(self, reply)
             filled ==
                 IF analysed /\ ~IsNone(p)
                 THEN [p EXCEPT !.moat_rating = moat_result.rating,
                                !.moat_reasoning = moat_result.reasoning,
                                !.pattaasu_score =
                                    calculate_pattaasu_score(
                                        p.debt_to_equity, p.promoter_pledging_pct,
                                        p.free_cash_flow_year1, p.free_cash_flow_year2,
                                        p.free_cash_flow_year3, moat_result.rating)]
                 ELSE p
         IN  [k |-> "StockAnalysis",
              metrics |-> m,
              pattaasu |-> filled,
              is_pattaasu_compliant |-> ~IsNone(p),
              pattaasu_score |-> IF ~IsNone(p) THEN p.pattaasu_score ELSE 0,
              risk |-> calculate_risk_assessment(m, p),
              moat_analysis |-> IF analysed THEN moat_result.reasoning ELSE ""]

\* full_analysis(ticker, financial_data, company_description, md_and_a_text):
\* the StockAnalysis, or the ValidationError of FinancialMetrics, which
\* full_analysis does not catch.  The score and the risk are taken from the
\* PattaasuMetrics as constructed; the moat analysis then runs if the
\* analyzer has a manager and the description is not empty, and its result
\* is assigned to the two moat fields of the object (assignment runs no
\* validator: the model_config sets no validate_assignment).
full_analysis(self, financial_data, description, reply) ==
    IF ~FinancialMetrics(WithoutNone(financial_data)).ok
    THEN Raise("ValidationError")
    ELSE LET m == FinancialMetrics(WithoutNone(financial_data)).obj
             p == validate_pattaasu(pattaasu_data(financial_data))
             analysed == ~IsNone(self.llm_manager) /\ description # ""
             moat_result == analyze_moat_with_llm(self, reply)
             filled ==
                 IF analysed /\ ~IsNone(p)
                 THEN [p EXCEPT !.moat_rating = moat_result.rating,
                                !.moat_reasoning = moat_result.reasoning]
                 ELSE p
         IN  [k |-> "StockAnalysis",
              metrics |-> m,
              pattaasu |-> filled,
              is_pattaasu_compliant |-> ~IsNone(p),
              pattaasu_score |-> IF ~IsNone(p) THEN p.pattaasu_score ELSE 0,
              risk |-> calculate_risk_assessment(m, p),
              moat_analysis |-> IF analysed THEN moat_result.reasoning ELSE ""]

\* PattaasuMetrics.fcf_3yr_average > 0, as the sign of the sum.
fcf_3yr_average_positive(p) ==
    p.free_cash_flow_year1 + p.free_cash_flow_year2 + p.free_cash_flow_year3 > 0

\* generate_recommendation with the HOLD and SELL bands open to a compliant
\* company below 80
generate_recommendation_banded(analysis) ==
    LET pattaasu_score == analysis.pattaasu_score
    IN  [k |-> "InvestmentRecommendation",
         rating |->
             IF pattaasu_score >= 80
             THEN (IF analysis.risk.overall_risk = "low"
                   THEN "strong_buy" ELSE "buy")
             ELSE IF pattaasu_score >= 70 THEN "buy"
             ELSE IF pattaasu_score >= 50 THEN "hold"
             ELSE IF pattaasu_score >= 30 THEN "sell"
             ELSE "strong_sell",
         key_points |-> <<>>,
         risks |-> <<>>,
         pattaasu_score |-> pattaasu_score,
         is_pattaasu_compliant |-> analysis.is_pattaasu_compliant]

\* generate_recommendation(analysis): the InvestmentRecommendation.  The
\* analysis of full_analysis always carries a RiskAssessment, and every
\* value handed to the constructor passes its validation.
generate_recommendation(analysis) ==
    LET pattaasu_score == analysis.pattaasu_score
        p == analysis.pattaasu
        rating ==
            IF analysis.is_pattaasu_compliant /\ pattaasu_score >= 80
            THEN (IF ~IsNone(analysis.risk) /\ analysis.risk.overall_risk = "low"
                  THEN "strong_buy" ELSE "buy")
            ELSE IF analysis.is_pattaasu_compliant /\ pattaasu_score >= 60
            THEN "buy"
            ELSE IF pattaasu_score >= 50 THEN "hold"
            ELSE IF pattaasu_score >= 30 THEN "sell"
            ELSE "strong_sell"
        key_points ==
            IF IsNone(p) THEN <<>>
            ELSE (IF p.debt_to_equity < 30 THEN <<"Very low leverage">> ELSE <<>>)
                 \o (IF p.moat_rating = "wide"
                     THEN <<"Wide competitive moat">> ELSE <<>>)
                 \o (IF fcf_3yr_average_positive(p)
                     THEN <<"Consistent positive free cash flow">> ELSE <<>>)
        risks ==
            IF IsNone(analysis.risk) THEN <<>>
            ELSE SubSeq(analysis.risk.risk_factors, 1,
                        IF Len(analysis.risk.risk_factors) < 3
                        THEN Len(analysis.risk.risk_factors) ELSE 3)
    IN  [k |-> "InvestmentRecommendation",
         rating |-> rating,
         key_points |-> key_points,
         risks |-> risks,
         pattaasu_score |-> pattaasu_score,
         is_pattaasu_compliant |-> analysis.is_pattaasu_compliant]

---------------------------------------------------------------------------
(* DeepAnalyzer.generate_rating: src/src/analysis/deep_analysis.py *)

\* A number of score points as a total in two-hundredths.
Pts(n) == 200 * n

\* The weights 0.50, 0.25, 0.15, 0.10, in hundredths.
fund_weight == 50
tech_weight == 25
sent_weight == 15
geo_weight == 10

\* The scores normalised to 0-100, held doubled (score * 2).
fund_score(f) == IF IsNone(f) THEN 2 * 50 ELSE 2 * f.total_score
tech_score(t) == IF IsNone(t) THEN 2 * 50 ELSE 2 * t.strength

\* a variant that gives a missing sentiment input no weight
sent_score_zero(s) == IF IsNone(s) THEN 0 ELSE s.overall_sentiment + 100

\* ((overall_sentiment + 100) / 2) if sentiment else 50
sent_score(s) == IF IsNone(s) THEN 2 * 50 ELSE s.overall_sentiment + 100

\* (geo_score + 50) if butterfly else 50
geo_score(b) == IF IsNone(b) THEN 2 * 50 ELSE 2 * (b.geo_score + 50)

\* a variant that leaves the sentiment and geopolitical terms out of the sum
weighted_total_two_terms(f, t, s, b) ==
    fund_score(f) * fund_weight + tech_score(t) * tech_weight

\* total = fund_score * fund_weight + tech_score * tech_weight
\*       + sent_score * sent_weight + geo_score * geo_weight
weighted_total(f, t, s, b) ==
    fund_score(f) * fund_weight + tech_score(t) * tech_weight
    + sent_score(s) * sent_weight + geo_score(b) * geo_weight

\* a variant whose penalty is a separate "if" and needs both flags false
pattaasu_adjustment_both(f) ==
    IF IsNone(f) THEN 0
    ELSE IF f.pattaasu_debt_ok /\ f.pattaasu_fcf_ok THEN Pts(10)
    ELSE IF ~f.pattaasu_debt_ok /\ ~f.pattaasu_fcf_ok THEN 0 - Pts(15)
    ELSE 0

\* The Pattaasu bonus or penalty added to the total.
pattaasu_adjustment(f) ==
    IF IsNone(f) THEN 0
    ELSE IF f.pattaasu_debt_ok /\ f.pattaasu_fcf_ok THEN Pts(10)
    ELSE IF ~f.pattaasu_debt_ok THEN 0 - Pts(15)
    ELSE 0

Min(a, b) == IF a <= b THEN a ELSE b
Max(a, b) == IF a >= b THEN a ELSE b

\* total = max(0, min(100, total))
clamp(total) == Max(0, Min(Pts(100), total))

\* int(total): truncation toward zero of a total in two-hundredths.
int(total) == IF total >= 0 THEN total \div 200 ELSE 0 - ((0 - total) \div 200)

\* a variant whose bands exclude their lower bound
rating_of_exclusive(total) ==
    IF total > Pts(80) THEN "STRONG_BUY"
    ELSE IF total > Pts(65) THEN "BUY"
    ELSE IF total > Pts(45) THEN "HOLD"
    ELSE IF total > Pts(30) THEN "SELL"
    ELSE "STRONG_SELL"

\* The rating of a clamped total.
rating_of(total) ==
    IF total >= Pts(80) THEN "STRONG_BUY"
    ELSE IF total >= Pts(65) THEN "BUY"
    ELSE IF total >= Pts(45) THEN "HOLD"
    ELSE IF total >= Pts(30) THEN "SELL"
    ELSE "STRONG_SELL"

\* a variant whose HOLD confidence follows the total
confidence_of_scaled(rating, total) ==
    CASE rating = "STRONG_BUY" -> Min(95, int(total))
      [] rating = "BUY" -> Min(85, int(total))
      [] rating = "HOLD" -> Min(60, int(total))
      [] rating = "SELL" -> Min(75, 100 - int(total))
      [] OTHER -> Min(90, 100 - int(total))

\* a variant without the caps 95 and 90 of the outer bands
confidence_of_uncapped(rating, total) ==
    CASE rating = "STRONG_BUY" -> int(total)
      [] rating = "BUY" -> Min(85, int(total))
      [] rating = "HOLD" -> 60
      [] rating = "SELL" -> Min(75, 100 - int(total))
      [] OTHER -> 100 - int(total)

\* The confidence set in the branch of each rating.
confidence_of(rating, total) ==
    CASE rating = "STRONG_BUY" -> Min(95, int(total))
      [] rating = "BUY" -> Min(85, int(total))
      [] rating = "HOLD" -> 60
      [] rating = "SELL" -> Min(75, 100 - int(total))
      [] OTHER -> Min(90, 100 - int(total))

\* a variant that keeps its running total on hand and adds to it in the next call
generate_rating_accumulating(self, f, t, s, b) ==
    LET carried == IF rated.k = "rated" THEN rated.weighted ELSE 0
        weighted == carried + weighted_total(f, t, s, b)
        adjusted == weighted + pattaasu_adjustment(f)
        total == clamp(adjusted)
    IN  [k |-> "rated",
         weighted |-> weighted,
         adjusted |-> adjusted,
         total |-> total,
         rating |-> rating_of(total),
         confidence |-> confidence_of(rating_of(total), total)]

\* self.generate_rating(fundamental, technical, sentiment, butterfly): its
\* locals (the weighted sum, the sum after the Pattaasu adjustment, the
\* clamped total) and the (rating, confidence) it returns.
generate_rating(self, f, t, s, b) ==
    LET weighted == weighted_total(f, t, s, b)
        adjusted == weighted + pattaasu_adjustment(f)
        total == clamp(adjusted)
    IN  [k |-> "rated",
         weighted |-> weighted,
         adjusted |-> adjusted,
         total |-> total,
         rating |-> rating_of(total),
         confidence |-> confidence_of(rating_of(total), total)]

\* The tuple generate_rating returns.
Returned(r) == <<r.rating, r.confidence>>

---------------------------------------------------------------------------
(* DeepAnalyzer.analyze_fundamentals: src/src/analysis/deep_analysis.py *)

\* self._to_decimal(value): None for None, else Decimal(str(value)); the
\* handler catches ValueError and TypeError, which decimal.InvalidOperation
\* (an ArithmeticError) is not, so that exception leaves the call.
_to_decimal(value) ==
    IF IsNone(value) THEN None
    ELSE IF IsRaise(Decimal(value)) /\ Decimal(value).exc \in {"ValueError", "TypeError"}
         THEN None
    ELSE Decimal(value)

\* "x and x > n" for an optional Decimal x
TruthyAbove(x, n) == Truthy(x) /\ x.v > n

\* The keys analyze_fundamentals extracts, with the default of each get.
FundamentalKeys ==
    <<"debt_to_equity", "roe", "roce", "current_ratio", "profit_margin",
      "revenue_growth", "free_cash_flow", "free_cash_flow_year1",
      "free_cash_flow_year2", "free_cash_flow_year3">>
FundamentalDefault(key) ==
    IF key = "debt_to_equity" THEN Num(9900)
    ELSE IF key \in {"free_cash_flow", "free_cash_flow_year1",
                     "free_cash_flow_year2", "free_cash_flow_year3"} THEN Num(0)
    ELSE None

\* self.analyze_fundamentals(financials): the FundamentalScore, or the
\* exception of the first extraction that fails.  debt_to_equity and
\* current_ratio are in hundredths, the other ratios in percent.
analyze_fundamentals(self, financials) ==
    LET value(key) == _to_decimal(get(financials, key, FundamentalDefault(key)))
        de == value("debt_to_equity")
        roe == value("roe")
        roce == value("roce")
        current_ratio == value("current_ratio")
        margin == value("profit_margin")
        revenue_growth == value("revenue_growth")
        fcf == value("free_cash_flow")
        fcf_y1 == value("free_cash_flow_year1")
        fcf_y2 == value("free_cash_flow_year2")
        fcf_y3 == value("free_cash_flow_year3")
        prof_score ==
            (IF TruthyAbove(roe, 15) THEN 10 ELSE IF TruthyAbove(roe, 10) THEN 5 ELSE 0)
            + (IF TruthyAbove(roce, 15) THEN 10 ELSE IF TruthyAbove(roce, 10) THEN 5 ELSE 0)
            + (IF TruthyAbove(margin, 15) THEN 5 ELSE IF TruthyAbove(margin, 10) THEN 3 ELSE 0)
        debt_points ==
            IF IsNone(de) THEN 0
            ELSE IF de.v < 10 THEN 15
            ELSE IF de.v < 50 THEN 10
            ELSE IF de.v < DELimit THEN 5
            ELSE 0
        solv_score ==
            debt_points
            + (IF TruthyAbove(current_ratio, 150) THEN 10
               ELSE IF TruthyAbove(current_ratio, 100) THEN 5 ELSE 0)
        fcf_ok == TruthyAbove(fcf_y1, 0) /\ TruthyAbove(fcf_y2, 0) /\ TruthyAbove(fcf_y3, 0)
        growth_score ==
            (IF TruthyAbove(revenue_growth, 15) THEN 15
             ELSE IF TruthyAbove(revenue_growth, 10) THEN 10
             ELSE IF TruthyAbove(revenue_growth, 5) THEN 5 ELSE 0)
            + (IF fcf_ok THEN 10 ELSE IF TruthyAbove(fcf, 0) THEN 5 ELSE 0)
    IN  IF \E i \in DOMAIN FundamentalKeys : IsRaise(value(FundamentalKeys[i]))
        THEN LET first == CHOOSE i \in DOMAIN FundamentalKeys :
                              /\ IsRaise(value(FundamentalKeys[i]))
                              /\ \A j \in 1..(i - 1) : ~IsRaise(value(FundamentalKeys[j]))
             IN  value(FundamentalKeys[first])
        ELSE [k |-> "FundamentalScore",
              roe |-> roe,
              roce |-> roce,
              profit_margin |-> margin,
              profitability_score |-> Min(prof_score, 25),
              debt_to_equity |-> de,
              solvency_score |-> Min(solv_score, 25),
              efficiency_score |-> 12,
              revenue_growth |-> revenue_growth,
              growth_score |-> Min(growth_score, 25),
              pattaasu_debt_ok |-> ~IsNone(de) /\ de.v < DELimit,
              pattaasu_pledging_ok |-> TRUE,
              pattaasu_fcf_ok |-> fcf_ok,
              total_score |-> Min(prof_score, 25) + Min(solv_score, 25) + 12
                                  + Min(growth_score, 25)]

---------------------------------------------------------------------------
(* DeepAnalyzer.analyze_technicals: src/src/analysis/deep_analysis.py *)

Trend == {"Strong Uptrend", "Uptrend", "Sideways", "Downtrend", "Strong Downtrend"}

\* self.analyze_technicals(price_data): the TechnicalScore, or the exception
\* of the first extraction that fails.  change_percent is in tenths of a
\* percent.
analyze_technicals(self, price_data) ==
    LET current == _to_decimal(get(price_data, "current_price", Num(0)))
        change == _to_decimal(get(price_data, "change_percent", Num(0)))
        score(trend, signal, strength) ==
            [k |-> "TechnicalScore", trend |-> trend, signal |-> signal,
             strength |-> strength]
    IN  IF IsRaise(current) THEN current
        ELSE IF IsRaise(change) THEN change
        ELSE IF Truthy(change) /\ change.v > 20 THEN score("Strong Uptrend", "BUY", 70)
        ELSE IF Truthy(change) /\ change.v > 5 THEN score("Uptrend", "BUY", 60)
        ELSE IF Truthy(change) /\ change.v < -20 THEN score("Strong Downtrend", "SELL", 30)
        ELSE IF Truthy(change) /\ change.v < -5 THEN score("Downtrend", "SELL", 40)
        ELSE score("Sideways", "NEUTRAL", 50)

---------------------------------------------------------------------------
(* DeepAnalyzer.generate_bull_bear_cases: src/src/analysis/deep_analysis.py *)

\* One entry of a list: its text, and the number the text quotes, if any.
Entry(text) == [text |-> text, arg |-> None]
EntryOf(text, arg) == [text |-> text, arg |-> arg]

\* f"Price in {technical.trend.value}"
PriceIn(trend) ==
    CASE trend = "Strong Uptrend" -> Entry("Price in Strong Uptrend")
      [] trend = "Uptrend" -> Entry("Price in Uptrend")
      [] trend = "Downtrend" -> Entry("Price in Downtrend")
      [] trend = "Strong Downtrend" -> Entry("Price in Strong Downtrend")

\* a variant whose profitability rule excludes the ends 20 and 10
generate_bull_bear_cases_exclusive(self, f, t) ==
    LET debt_ok == ~IsNone(f) /\ f.pattaasu_debt_ok
        debt_bad == ~IsNone(f) /\ ~f.pattaasu_debt_ok
        fcf_ok == ~IsNone(f) /\ f.pattaasu_fcf_ok
        fcf_bad == ~IsNone(f) /\ ~f.pattaasu_fcf_ok
        strong_roe == ~IsNone(f) /\ TruthyAbove(f.roe, 15)
        profitable == ~IsNone(f) /\ f.profitability_score > 20
        weak == ~IsNone(f) /\ f.profitability_score < 10
        rising == ~IsNone(t) /\ t.trend \in {"Strong Uptrend", "Uptrend"}
        falling == ~IsNone(t) /\ t.trend \in {"Strong Downtrend", "Downtrend"}
    IN  [bull_case |->
             (IF debt_ok THEN <<Entry("Low debt levels (Pattaasu compliant)")>> ELSE <<>>)
             \o (IF fcf_ok THEN <<Entry("Consistent positive free cash flow")>> ELSE <<>>)
             \o (IF strong_roe THEN <<EntryOf("Strong ROE of", f.roe)>> ELSE <<>>)
             \o (IF profitable THEN <<Entry("High profitability metrics")>> ELSE <<>>)
             \o (IF rising THEN <<PriceIn(t.trend)>> ELSE <<>>),
         bear_case |->
             (IF debt_bad THEN <<Entry("High debt-to-equity ratio")>> ELSE <<>>)
             \o (IF fcf_bad THEN <<Entry("Inconsistent cash generation")>> ELSE <<>>)
             \o (IF weak THEN <<Entry("Weak profitability")>> ELSE <<>>)
             \o (IF falling THEN <<PriceIn(t.trend)>> ELSE <<>>),
         risks |-> IF debt_bad THEN <<Entry("Leverage risk in downturn")>> ELSE <<>>]

\* self.generate_bull_bear_cases(fundamental, technical): the three lists.
\* Each list is the concatenation, in the order of the statements, of what
\* each rule appends to it.
generate_bull_bear_cases(self, f, t) ==
    LET debt_ok == ~IsNone(f) /\ f.pattaasu_debt_ok
        debt_bad == ~IsNone(f) /\ ~f.pattaasu_debt_ok
        fcf_ok == ~IsNone(f) /\ f.pattaasu_fcf_ok
        fcf_bad == ~IsNone(f) /\ ~f.pattaasu_fcf_ok
        strong_roe == ~IsNone(f) /\ TruthyAbove(f.roe, 15)
        profitable == ~IsNone(f) /\ f.profitability_score >= 20
        weak == ~IsNone(f) /\ ~profitable /\ f.profitability_score <= 10
        rising == ~IsNone(t) /\ t.trend \in {"Strong Uptrend", "Uptrend"}
        falling == ~IsNone(t) /\ ~rising /\ t.trend \in {"Strong Downtrend", "Downtrend"}
    IN  [bull_case |->
             (IF debt_ok THEN <<Entry("Low debt levels (Pattaasu compliant)")>> ELSE <<>>)
             \o (IF fcf_ok THEN <<Entry("Consistent positive free cash flow")>> ELSE <<>>)
             \o (IF strong_roe THEN <<EntryOf("Strong ROE of", f.roe)>> ELSE <<>>)
             \o (IF profitable THEN <<Entry("High profitability metrics")>> ELSE <<>>)
             \o (IF rising THEN <<PriceIn(t.trend)>> ELSE <<>>),
         bear_case |->
             (IF debt_bad THEN <<Entry("High debt-to-equity ratio")>> ELSE <<>>)
             \o (IF fcf_bad THEN <<Entry("Inconsistent cash generation")>> ELSE <<>>)
             \o (IF weak THEN <<Entry("Weak profitability")>> ELSE <<>>)
             \o (IF falling THEN <<PriceIn(t.trend)>> ELSE <<>>),
         risks |-> IF debt_bad THEN <<Entry("Leverage risk in downturn")>> ELSE <<>>]

---------------------------------------------------------------------------
(* The validator's entry points, each applied to the drawn mapping *)

OneAnalyzer ==
    /\ analyzers = [a \in Analyzers |-> DeepAnalyzer(None)]
    /\ ncalls = 0
    /\ history = {}

\* No analyzer with an optional LLM manager has been set up.
AnalysisIdle ==
    /\ analyzer = None
    /\ company_description = ""
    /\ moat_reply = NotRun
    /\ recommendation = NotRun

\* No LLM manager has been constructed.
LLMIdle ==
    /\ config = None
    /\ is_available = {}
    /\ _health_status = <<>>
    /\ request = NotRun

\* No ingestion task has been queued.
TaskIdle == task = NotRun

ServiceIdle ==
    /\ AnalysisIdle
    /\ LLMIdle
    /\ TaskIdle

RiskIdle ==
    /\ fin = None
    /\ pattaasu = None
    /\ risk = NotRun
    /\ d_e_read = NotRun

RatingIdle ==
    /\ fundamental = None
    /\ technical = None
    /\ sentiment = None
    /\ butterfly = None
    /\ rated = NotRun
    /\ cases = NotRun
    /\ OneAnalyzer

ValidateIdle ==
    /\ metrics = None
    /\ op = "none"
    /\ ret = NotRun

\* A debt-free company with a wide moat: D/E = 0, pledging = 0,
\* FCF = [100, 90, 80], moat = wide.
ScoreCalculationMetrics ==
    [debt_to_equity |-> Num(0), promoter_pledging_pct |-> Num(0),
     free_cash_flow_year1 |-> Num(100), free_cash_flow_year2 |-> Num(90),
     free_cash_flow_year3 |-> Num(80), moat_rating |-> "wide"]

InitValidate ==
    /\ ServiceIdle
    /\ RatingIdle
    /\ RiskIdle
    /\ metrics \in [debt_to_equity : DEValues,
                    promoter_pledging_pct : PledgeValues,
                    free_cash_flow_year1 : FcfValues,
                    free_cash_flow_year2 : FcfValues,
                    free_cash_flow_year3 : FcfValues,
                    moat_rating : MoatRating]
                   \cup {ScoreCalculationMetrics}
    /\ op = "none"
    /\ ret = NotRun

Construct ==
    /\ op = "none"
    /\ op' = "PattaasuMetrics"
    /\ ret' = PattaasuMetrics(metrics)
    /\ UNCHANGED metrics

ValidatePattaasu ==
    /\ op = "none"
    /\ op' = "validate_pattaasu"
    /\ ret' = validate_pattaasu(metrics)
    /\ UNCHANGED metrics

QuickValidate ==
    /\ op = "none"
    /\ op' = "quick_validate"
    /\ ret' = quick_validate(metrics)
    /\ UNCHANGED metrics

NextValidate ==
    \/ Construct /\ UNCHANGED <<ratingVars, riskVars, serviceVars>>
    \/ ValidatePattaasu /\ UNCHANGED <<ratingVars, riskVars, serviceVars>>
    \/ QuickValidate /\ UNCHANGED <<ratingVars, riskVars, serviceVars>>

SpecValidate == InitValidate /\ [][NextValidate]_vars

---------------------------------------------------------------------------
(* generate_rating applied to the drawn arguments *)

InitRating ==
    /\ ServiceIdle
    /\ ValidateIdle
    /\ RiskIdle
    /\ OneAnalyzer
    /\ fundamental \in {None} \cup
           {FundamentalScore(n, d, c) : n \in FundScores, d \in BOOLEAN, c \in BOOLEAN}
    /\ technical \in {None} \cup {TechnicalScore(n) : n \in TechValues}
    /\ sentiment \in {None} \cup {SentimentScore(n) : n \in SentValues}
    /\ butterfly \in {None} \cup {ButterflyEffect(n) : n \in GeoValues}
    /\ rated = NotRun
    /\ cases = NotRun

GenerateRating ==
    /\ rated = NotRun
    /\ rated' = generate_rating(analyzers[1], fundamental, technical, sentiment, butterfly)
    /\ UNCHANGED <<argVars, cases, analyzers, ncalls, history>>

NextRating == GenerateRating /\ UNCHANGED <<validateVars, riskVars, serviceVars>>

SpecRating == InitRating /\ [][NextRating]_vars

---------------------------------------------------------------------------
(* A caller's sequence of generate_rating calls on several analyzers *)

CallFundamentals == {None, FundamentalScore(40, FALSE, FALSE), FundamentalScore(90, TRUE, TRUE)}
CallTechnicals == {TechnicalScore(70)}
CallSentiments == {None, SentimentScore(100)}
CallButterflies == {None}

InitCalls ==
    /\ ServiceIdle
    /\ ValidateIdle
    /\ RiskIdle
    /\ fundamental \in CallFundamentals
    /\ technical \in CallTechnicals
    /\ sentiment \in CallSentiments
    /\ butterfly \in CallButterflies
    /\ rated = NotRun
    /\ cases = NotRun
    /\ analyzers \in [Analyzers -> {DeepAnalyzer(None), DeepAnalyzer(LLMManager)}]
    /\ ncalls = 0
    /\ history = {}

\* analyzers[a].generate_rating(fundamental, technical, sentiment, butterfly)
CallGenerateRating(a) ==
    /\ ncalls < MaxCalls
    /\ rated' = generate_rating(analyzers[a], fundamental, technical, sentiment, butterfly)
    /\ ncalls' = ncalls + 1
    /\ history' = history \cup
           {[self |-> a,
             args |-> <<fundamental, technical, sentiment, butterfly>>,
             returned |-> Returned(rated')]}
    /\ UNCHANGED <<argVars, cases, analyzers>>

\* The caller turns to other argument objects for its next call.
SetArguments ==
    /\ ncalls < MaxCalls
    /\ fundamental' \in CallFundamentals
    /\ technical' \in CallTechnicals
    /\ sentiment' \in CallSentiments
    /\ butterfly' \in CallButterflies
    /\ <<fundamental', technical', sentiment', butterfly'>> # argVars
    /\ UNCHANGED <<rated, cases, analyzers, ncalls, history>>

NextCalls ==
    \/ (\E a \in Analyzers : CallGenerateRating(a)) /\ UNCHANGED <<validateVars, riskVars, serviceVars>>
    \/ SetArguments /\ UNCHANGED <<validateVars, riskVars, serviceVars>>

SpecCalls == InitCalls /\ [][NextCalls]_vars

---------------------------------------------------------------------------
(* calculate_risk_assessment applied to the drawn metrics *)

\* total_debt: 0 .. MaxDebt; total_equity: -10, 0, 10, ... MaxEquity10 * 10
DebtValues == {Num(i) : i \in 0..MaxDebt} \cup {None}
EquityValues == {Num(10 * i) : i \in -1..MaxEquity10} \cup {None}
\* cash_and_equivalents: 0 .. MaxCash; total_liabilities: 0, 10, ... MaxLiab10 * 10
CashValues == {Num(i) : i \in 0..MaxCash} \cup {None}
LiabValues == {Num(10 * i) : i \in 0..MaxLiab10} \cup {None}

\* The PattaasuMetrics objects construction yields for a debt-free and for a
\* lightly indebted company.
CompliantMetrics(de) ==
    [debt_to_equity |-> Num(de), promoter_pledging_pct |-> Num(0),
     free_cash_flow_year1 |-> Num(100), free_cash_flow_year2 |-> Num(100),
     free_cash_flow_year3 |-> Num(100), moat_rating |-> "none"]
\* PattaasuMetrics validates on construction only (its model_config sets no
\* validate_assignment): an object whose pledging was assigned afterwards.
PledgedMetrics(pct) ==
    [validate_pattaasu(CompliantMetrics(0)) EXCEPT !.promoter_pledging_pct = pct]
PattaasuArgs ==
    {None} \cup {validate_pattaasu(CompliantMetrics(de)) : de \in {0, 20}}
           \cup {PledgedMetrics(10)}

InitRisk ==
    /\ ServiceIdle
    /\ ValidateIdle
    /\ RatingIdle
    /\ fin \in [k : {"FinancialMetrics"},
                total_debt : DebtValues,
                total_equity : EquityValues,
                cash_and_equivalents : CashValues,
                total_liabilities : LiabValues]
    /\ pattaasu \in PattaasuArgs
    /\ risk = NotRun
    /\ d_e_read = NotRun

CalculateRiskAssessment ==
    /\ risk = NotRun
    /\ risk' = calculate_risk_assessment(fin, pattaasu)
    /\ UNCHANGED <<fin, pattaasu, d_e_read>>

NextRisk == CalculateRiskAssessment /\ UNCHANGED <<validateVars, ratingVars, serviceVars>>

SpecRisk == InitRisk /\ [][NextRisk]_vars

---------------------------------------------------------------------------
(* A FinancialMetrics object whose fields are assigned and whose
   debt_to_equity property is read *)

InitMetrics ==
    /\ ServiceIdle
    /\ ValidateIdle
    /\ RatingIdle
    /\ fin \in [k : {"FinancialMetrics"},
                total_debt : DebtValues,
                total_equity : EquityValues,
                cash_and_equivalents : {None},
                total_liabilities : {None}]
    /\ pattaasu = None
    /\ risk = NotRun
    /\ d_e_read = NotRun

\* fin.total_debt = v
AssignTotalDebt ==
    /\ \E v \in DebtValues \ {fin.total_debt} : fin' = [fin EXCEPT !.total_debt = v]
    /\ d_e_read' = NotRun
    /\ UNCHANGED <<pattaasu, risk>>

\* fin.total_equity = v
AssignTotalEquity ==
    /\ \E v \in EquityValues \ {fin.total_equity} : fin' = [fin EXCEPT !.total_equity = v]
    /\ d_e_read' = NotRun
    /\ UNCHANGED <<pattaasu, risk>>

\* d_e = metrics.debt_to_equity
ReadDebtToEquity ==
    /\ d_e_read' = debt_to_equity(fin)
    /\ UNCHANGED <<fin, pattaasu, risk>>

NextMetrics ==
    \/ AssignTotalDebt /\ UNCHANGED <<validateVars, ratingVars, serviceVars>>
    \/ AssignTotalEquity /\ UNCHANGED <<validateVars, ratingVars, serviceVars>>
    \/ ReadDebtToEquity /\ UNCHANGED <<validateVars, ratingVars, serviceVars>>

SpecMetrics == InitMetrics /\ [][NextMetrics]_vars

---------------------------------------------------------------------------
(* The entry points that take a raw mapping, each applied to a mapping whose
   values may be absent, None or unparseable *)

Unparseable == Str("N/A")

RawMappings ==
    [debt_to_equity : {Absent, None, Unparseable, Num(0), Num(50), Num(150)},
     promoter_pledging_pct : {Absent, Unparseable, Num(0), Num(10)},
     free_cash_flow_year1 : {Absent, None, Unparseable, Num(-100), Num(100)},
     free_cash_flow_year2 : {Absent, Num(100)},
     free_cash_flow_year3 : {Absent, Num(100)},
     roe : {Absent, Unparseable, Num(20)},
     change_percent : {Absent, Unparseable, Num(30)},
     total_debt : {Absent, Unparseable, Num(-1), Num(5)},
     total_equity : {Absent, None, Unparseable, Num(-10), Num(10)}]

InitRaw ==
    /\ ServiceIdle
    /\ RatingIdle
    /\ RiskIdle
    /\ metrics \in RawMappings
    /\ op = "none"
    /\ ret = NotRun

AnalyzeFundamentals ==
    /\ op = "none"
    /\ op' = "analyze_fundamentals"
    /\ ret' = analyze_fundamentals(analyzers[1], metrics)
    /\ UNCHANGED metrics

AnalyzeTechnicals ==
    /\ op = "none"
    /\ op' = "analyze_technicals"
    /\ ret' = analyze_technicals(analyzers[1], metrics)
    /\ UNCHANGED metrics

ConstructFinancialMetrics ==
    /\ op = "none"
    /\ op' = "FinancialMetrics"
    /\ ret' = FinancialMetrics(metrics)
    /\ UNCHANGED metrics

FullAnalysis ==
    /\ op = "none"
    /\ op' = "full_analysis"
    /\ ret' = full_analysis(NoLLM, metrics, "", NotRun)
    /\ UNCHANGED metrics

NextRaw ==
    \/ AnalyzeFundamentals /\ UNCHANGED <<ratingVars, riskVars, serviceVars>>
    \/ AnalyzeTechnicals /\ UNCHANGED <<ratingVars, riskVars, serviceVars>>
    \/ QuickValidate /\ UNCHANGED <<ratingVars, riskVars, serviceVars>>
    \/ ConstructFinancialMetrics /\ UNCHANGED <<ratingVars, riskVars, serviceVars>>
    \/ FullAnalysis /\ UNCHANGED <<ratingVars, riskVars, serviceVars>>

SpecRaw == InitRaw /\ [][NextRaw]_vars

---------------------------------------------------------------------------
(* generate_bull_bear_cases applied to the drawn scores *)

\* FundamentalScore.profitability_score: 0 .. MaxProfitability
MaxProfitability == 25
RoeValues == {None, Num(0), Num(15), Num(16)}

CaseFundamentals ==
    [k : {"FundamentalScore"},
     pattaasu_debt_ok : BOOLEAN,
     pattaasu_fcf_ok : BOOLEAN,
     roe : RoeValues,
     profitability_score : 0..MaxProfitability]
CaseTechnicals == [k : {"TechnicalScore"}, trend : Trend, strength : {50}]

InitCases ==
    /\ ServiceIdle
    /\ ValidateIdle
    /\ RiskIdle
    /\ OneAnalyzer
    /\ fundamental \in {None} \cup CaseFundamentals
    /\ technical \in {None} \cup CaseTechnicals
    /\ sentiment = None
    /\ butterfly = None
    /\ rated = NotRun
    /\ cases = NotRun

GenerateBullBearCases ==
    /\ cases = NotRun
    /\ cases' = generate_bull_bear_cases(analyzers[1], fundamental, technical)
    /\ UNCHANGED <<argVars, rated, analyzers, ncalls, history>>

NextCases == GenerateBullBearCases /\ UNCHANGED <<validateVars, riskVars, serviceVars>>

SpecCases == InitCases /\ [][NextCases]_vars

---------------------------------------------------------------------------
(* full_analysis with an optional LLM manager, then generate_recommendation *)

\* The financial_data mappings handed to full_analysis.
AnalysisMappings ==
    [debt_to_equity : {Absent, None, Num(0), Num(5), Num(20), Num(50), Num(150)},
     promoter_pledging_pct : {Absent, Num(0), Num(10)},
     free_cash_flow_year1 : {Absent, Num(-100), Num(100)},
     free_cash_flow_year2 : {Num(100)},
     free_cash_flow_year3 : {Absent, Num(100)},
     total_debt : {Absent, Num(2), Num(8), Num(12)},
     total_equity : {Absent, Num(10)},
     cash_and_equivalents : {Absent, Num(3)},
     total_liabilities : {Num(10)}]

InitAnalysis ==
    /\ LLMIdle
    /\ TaskIdle
    /\ RatingIdle
    /\ RiskIdle
    /\ metrics \in AnalysisMappings
    /\ op = "none"
    /\ ret = NotRun
    /\ analyzer \in {NoLLM, WithLLM}
    /\ company_description \in {"", "Makes paint"}
    /\ moat_reply = NotRun
    /\ recommendation = NotRun

\* await analyzer.full_analysis(ticker, financial_data, company_description);
\* the manager is asked only if there is one and the description is not empty.
FullAnalysisOf ==
    /\ op = "none"
    /\ \E reply \in MoatResults :
           /\ moat_reply' =
                  IF ~IsNone(analyzer.llm_manager) /\ company_description # ""
                  THEN reply ELSE NotRun
           /\ ret' = full_analysis(analyzer, metrics, company_description, reply)
    /\ op' = "full_analysis"
    /\ UNCHANGED <<metrics, analyzer, company_description, recommendation>>

\* await analyzer.generate_recommendation(analysis) on the analysis returned.
GenerateRecommendation ==
    /\ op = "full_analysis"
    /\ ~IsRaise(ret)
    /\ recommendation = NotRun
    /\ recommendation' = generate_recommendation(ret)
    /\ UNCHANGED <<metrics, op, ret, analyzer, company_description, moat_reply>>

NextAnalysis ==
    \/ FullAnalysisOf /\ UNCHANGED <<ratingVars, riskVars, llmVars, task>>
    \/ GenerateRecommendation /\ UNCHANGED <<ratingVars, riskVars, llmVars, task>>

SpecAnalysis == InitAnalysis /\ [][NextAnalysis]_vars

---------------------------------------------------------------------------
(* LLMConfig and LLMManager: src/src/llm/config.py, src/src/llm/manager.py *)

\* Four of the eight members of ProviderType, in the order in which
\* _load_from_environment enters them into LLMConfig.providers.
ProviderOrder == <<"groq", "ollama", "openai", "anthropic">>
Providers == {ProviderOrder[i] : i \in 1..Len(ProviderOrder)}

\* provider=None, the default of complete and stream; a ProviderType is a
\* non-empty string and so is true.
NoProvider == ""

\* The members of a list, and the list without the members outside a set.
Members(list) == {list[i] : i \in 1..Len(list)}
RECURSIVE Keep(_, _)
Keep(list, S) ==
    IF list = <<>> THEN <<>>
    ELSE (IF Head(list) \in S THEN <<Head(list)>> ELSE <<>>) \o Keep(Tail(list), S)

\* LLMConfig.get_enabled_providers(): in the order of the providers dict.
get_enabled_providers(self) == Keep(ProviderOrder, self.enabled)

\* LLMConfig.get_fallback_chain(): the default provider (always a key of
\* providers), the fallback provider unless it is the default, then the
\* enabled providers not yet in the chain.
get_fallback_chain(self) ==
    LET first == IF self.default_provider \in Providers
                 THEN <<self.default_provider>> ELSE <<>>
        second == IF self.fallback_provider # self.default_provider
                  THEN first \o <<self.fallback_provider>> ELSE first
    IN  second \o Keep(get_enabled_providers(self), Providers \ Members(second))

\* a variant that leaves the preferred provider where the chain has it
preferred_first_in_place(fallback_chain, provider) ==
    IF provider # NoProvider /\ provider \notin Members(fallback_chain)
    THEN <<provider>> \o fallback_chain
    ELSE fallback_chain

\* "if provider:" of complete and stream: the preferred provider is removed
\* from the chain and put in front of it.
preferred_first(fallback_chain, provider) ==
    IF provider # NoProvider
    THEN <<provider>> \o Keep(fallback_chain, Members(fallback_chain) \ {provider})
    ELSE fallback_chain

\* What a provider's complete does: it returns a response or raises.
\* HTTPStatusError stands for the exceptions that are neither a
\* ConnectionError nor a TimeoutError.
ProviderErrors == {"ConnectionError", "TimeoutError", "HTTPStatusError"}
Outcomes == {"response"} \cup ProviderErrors

LLMResponse(p) == [k |-> "LLMResponse", provider |-> p]
\* The exception exc raised by the provider p.
ProviderError(p, exc) == [k |-> "raise", exc |-> exc, provider |-> p]

\* self._health_status[provider_type] = value
SetHealth(health, p, value) ==
    [q \in DOMAIN health \cup {p} |-> IF q = p THEN value ELSE health[q]]

\* The loop "for provider_type in fallback_chain" of complete from the i-th
\* entry on: tried is the list of the provider calls made so far with what
\* each did, last_error the error of the last one that raised, or None.
RECURSIVE try_providers(_, _, _, _, _, _, _)
try_providers(fallback_chain, i, available, outcomes, health, tried, last_error) ==
    IF i > Len(fallback_chain)
    THEN [tried |-> tried, health |-> health,
          result |-> IF IsNone(last_error) THEN Raise("RuntimeError") ELSE last_error]
    ELSE LET p == fallback_chain[i]
         IN  IF p \notin available
             THEN try_providers(fallback_chain, i + 1, available, outcomes,
                                health, tried, last_error)
             ELSE IF outcomes[p] = "response"
             THEN [tried |-> Append(tried, [provider |-> p, outcome |-> "response"]),
                   health |-> SetHealth(health, p, TRUE),
                   result |-> LLMResponse(p)]
             ELSE try_providers(fallback_chain, i + 1, available, outcomes,
                                SetHealth(health, p, FALSE),
                                Append(tried, [provider |-> p, outcome |-> outcomes[p]]),
                                ProviderError(p, outcomes[p]))

\* The body of LLMManager.complete, one pass over the chain: the provider
\* calls it made, the health cache it leaves, and the response it returns
\* or the exception it raises.
complete(self, available, health, provider, outcomes) ==
    try_providers(preferred_first(get_fallback_chain(self), provider), 1,
                  available, outcomes, health, <<>>, None)

\* stop=stop_after_attempt(3)
stop_after_attempt == 3

\* a variant that retries on every exception
retry_if_exception(exc) == TRUE

\* retry=retry_if_exception_type((ConnectionError, TimeoutError))
retry_if_exception_type(exc) == exc \in {"ConnectionError", "TimeoutError"}

\* The configurations, the available providers and the preferred provider
\* of the manager calls drawn.
Configs ==
    [default_provider : {"groq", "openai"},
     fallback_provider : {"ollama", "groq"},
     enabled : {{}, {"anthropic"}, {"groq", "openai"}, Providers}]
Availabilities ==
    {{}, {"groq"}, {"ollama", "anthropic"}, {"groq", "openai"}, Providers \ {"groq"}}
Preferred == {NoProvider, "ollama", "anthropic"}

InitComplete ==
    /\ AnalysisIdle
    /\ TaskIdle
    /\ RatingIdle
    /\ RiskIdle
    /\ ValidateIdle
    /\ config \in Configs
    /\ is_available \in Availabilities
    /\ _health_status = <<>>
    /\ \E provider \in Preferred :
           request = [method |-> "complete", provider |-> provider,
                      state |-> "calling", attempt |-> 0,
                      tried |-> <<>>, result |-> NotRun]

\* One attempt of the retrying wrapper of complete: a pass of the body, then
\* the decision of the wrapper: return the response; call again after a
\* ConnectionError or TimeoutError unless this was the third attempt;
\* otherwise raise the exception of the pass (reraise=True).  The request
\* keeps the provider calls and the outcome of the latest pass.
CompleteAttempt ==
    /\ request.method = "complete"
    /\ request.state = "calling"
    /\ \E outcomes \in [is_available -> Outcomes] :
           LET pass == complete(config, is_available, _health_status,
                                request.provider, outcomes)
               attempt_number == request.attempt + 1
           IN  /\ _health_status' = pass.health
               /\ request' =
                      [request EXCEPT
                          !.attempt = attempt_number,
                          !.tried = pass.tried,
                          !.result = pass.result,
                          !.state =
                              IF ~IsRaise(pass.result) THEN "returned"
                              ELSE IF retry_if_exception_type(pass.result.exc)
                                      /\ attempt_number < stop_after_attempt
                              THEN "calling"
                              ELSE "raised"]
    /\ UNCHANGED <<config, is_available>>

NextComplete ==
    CompleteAttempt /\ UNCHANGED <<validateVars, ratingVars, riskVars, analysisVars, task>>

SpecComplete == InitComplete /\ [][NextComplete]_vars

---------------------------------------------------------------------------
(* LLMManager.stream: src/src/llm/manager.py *)

\* The chunks one stream call may yield in the model.
MaxChunks == 2

\* What a provider's stream does when the generator pulls it: it yields a
\* chunk, it ends, or it raises.
StreamEvents == {"chunk", "end"} \cup ProviderErrors

\* The generator of stream resumed at the i-th provider of the chain (the
\* provider whose stream is open, or the first one): it runs until it
\* yields a chunk, returns, or raises.  A provider that raises - before or
\* after its first chunk - is marked unhealthy and the loop goes on to the
\* next provider.
RECURSIVE resume(_, _, _, _, _, _, _)
resume(fallback_chain, i, available, events, health, yielded, last_error) ==
    IF i > Len(fallback_chain)
    THEN [state |-> "raised", position |-> i, health |-> health,
          yielded |-> yielded, last_error |-> last_error,
          result |-> IF IsNone(last_error) THEN Raise("RuntimeError") ELSE last_error]
    ELSE LET p == fallback_chain[i]
         IN  IF p \notin available
             THEN resume(fallback_chain, i + 1, available, events, health,
                         yielded, last_error)
             ELSE IF events[p] = "chunk"
             THEN [state |-> "suspended", position |-> i, health |-> health,
                   yielded |-> Append(yielded, p), last_error |-> last_error,
                   result |-> NotRun]
             ELSE IF events[p] = "end"
             THEN [state |-> "returned", position |-> i,
                   health |-> SetHealth(health, p, TRUE),
                   yielded |-> yielded, last_error |-> last_error,
                   result |-> NotRun]
             ELSE resume(fallback_chain, i + 1, available, events,
                         SetHealth(health, p, FALSE), yielded,
                         ProviderError(p, events[p]))

InitStream ==
    /\ AnalysisIdle
    /\ TaskIdle
    /\ RatingIdle
    /\ RiskIdle
    /\ ValidateIdle
    /\ config \in Configs
    /\ is_available \in Availabilities
    /\ _health_status = <<>>
    /\ \E provider \in Preferred :
           request = [method |-> "stream", provider |-> provider,
                      state |-> "suspended", position |-> 1,
                      yielded |-> <<>>, last_error |-> None, result |-> NotRun]

\* The consumer asks the generator of manager.stream(...) for its next
\* item.  The chain is computed at the first resumption from the
\* configuration, which does not change.
StreamNext ==
    /\ request.method = "stream"
    /\ request.state = "suspended"
    /\ \E events \in [is_available -> StreamEvents] :
           LET r == resume(preferred_first(get_fallback_chain(config), request.provider),
                           request.position, is_available, events,
                           _health_status, request.yielded, request.last_error)
           IN  /\ Len(r.yielded) <= MaxChunks
               /\ _health_status' = r.health
               /\ request' = [request EXCEPT !.state = r.state,
                                             !.position = r.position,
                                             !.yielded = r.yielded,
                                             !.last_error = r.last_error,
                                             !.result = r.result]
    /\ UNCHANGED <<config, is_available>>

NextStream ==
    StreamNext /\ UNCHANGED <<validateVars, ratingVars, riskVars, analysisVars, task>>

SpecStream == InitStream /\ [][NextStream]_vars

---------------------------------------------------------------------------
(* fetch_company_metrics: src/src/ingestion/tasks.py, handlers.py *)

FailureType ==
    {"rate_limit", "timeout", "parse_error", "not_found", "auth_error",
     "network_error", "unknown"}

\* An exception of _fetch_from_api, held as the set of the words that
\* _classify_error looks for and that str(error).lower() contains.
ErrorMessages ==
    {{"429"}, {"timed out"}, {"404"}, {"401"}, {"connection"}, {"json"}, {},
     {"connection", "timeout"}, {"network", "not found"}}

\* What _fetch_from_api does in one execution: it returns the metrics, the
\* soft time limit expires in it, or it raises an exception.
FetchOutcomes ==
    {[k |-> "data"], [k |-> "SoftTimeLimitExceeded"]}
    \cup {[k |-> "Exception", message |-> error] : error \in ErrorMessages}

\* _classify_error(error): the first group of words with a member in the
\* message decides.
_classify_error(error) ==
    IF error \cap {"rate limit", "429"} # {} THEN "rate_limit"
    ELSE IF error \cap {"timeout", "timed out"} # {} THEN "timeout"
    ELSE IF error \cap {"not found", "404"} # {} THEN "not_found"
    ELSE IF error \cap {"unauthorized", "401", "403"} # {} THEN "auth_error"
    ELSE IF error \cap {"connection", "network"} # {} THEN "network_error"
    ELSE IF error \cap {"parse", "json", "xml"} # {} THEN "parse_error"
    ELSE "unknown"

\* FailureObject.max_retries, and max_retries of the task decorator.
max_retries == 3
task_max_retries == 3

\* FailureObject(ticker, failure_type, message, retry_count=...)
FailureObject(failure_type, retry_count) ==
    [failure_type |-> failure_type, retry_count |-> retry_count,
     max_retries |-> max_retries]

\* a variant that does not look at the retry count
is_retryable_any_count(failure) ==
    failure.failure_type \in {"rate_limit", "timeout", "network_error"}

\* FailureObject.is_retryable
is_retryable(failure) ==
    /\ failure.failure_type \in {"rate_limit", "timeout", "network_error"}
    /\ failure.retry_count < failure.max_retries

\* FailureObject.to_dict(), without the ticker, message and timestamp.
to_dict(failure) ==
    [failure_type |-> failure.failure_type,
     retry_count |-> failure.retry_count,
     is_retryable |-> is_retryable(failure)]

\* raise self.retry(exc=e, countdown=...): the task is queued again with
\* one more retry, or, past the task's max_retries, exc is raised and the
\* task fails.
retry(t, countdown) ==
    IF t.retries + 1 > task_max_retries
    THEN [t EXCEPT !.state = "failed", !.result = Raise("Exception")]
    ELSE [t EXCEPT !.state = "queued", !.retries = @ + 1, !.countdown = countdown]

\* One execution of fetch_company_metrics whose _fetch_from_api did what
\* outcome says.
\* Every failure is handed to log_failure, which raises nothing.
fetch_company_metrics(t, outcome) ==
    LET ran == [t EXCEPT !.executions = @ + 1]
    IN  IF outcome.k = "data"
        THEN [ran EXCEPT !.state = "returned",
                         !.result = [success |-> TRUE, data |-> "metrics"]]
        ELSE IF outcome.k = "SoftTimeLimitExceeded"
        THEN LET failure == FailureObject("timeout", t.retries)
             IN  [ran EXCEPT !.state = "returned",
                             !.logged = Append(@, failure),
                             !.result = [success |-> FALSE,
                                         failure |-> to_dict(failure)]]
        ELSE LET failure == FailureObject(_classify_error(outcome.message), t.retries)
                 logged == [ran EXCEPT !.logged = Append(@, failure)]
             IN  IF is_retryable(failure)
                 THEN retry(logged, 60 * (t.retries + 1))
                 ELSE [logged EXCEPT !.state = "returned",
                                     !.result = [success |-> FALSE,
                                                 failure |-> to_dict(failure)]]

\* The task as the chord header queues it: fetch_company_metrics.s(ticker).
InitTask ==
    /\ AnalysisIdle
    /\ LLMIdle
    /\ RatingIdle
    /\ RiskIdle
    /\ ValidateIdle
    /\ task = [state |-> "queued", retries |-> 0, countdown |-> 0,
               executions |-> 0, logged |-> <<>>, result |-> NotRun]

\* A worker takes the queued task and runs it.
Execute ==
    /\ task.state = "queued"
    /\ \E outcome \in FetchOutcomes :
           task' = fetch_company_metrics(task, outcome)

NextTask ==
    Execute /\ UNCHANGED <<validateVars, ratingVars, riskVars, analysisVars, llmVars>>

SpecTask == InitTask /\ [][NextTask]_vars

---------------------------------------------------------------------------
(* Claims about strict construction and quick_validate *)

AllPresent(m) ==
    /\ ~IsNone(m.debt_to_equity)
    /\ ~IsNone(m.promoter_pledging_pct)
    /\ ~IsNone(m.free_cash_flow_year1)
    /\ ~IsNone(m.free_cash_flow_year2)
    /\ ~IsNone(m.free_cash_flow_year3)

\* C1: every construction attempt of PattaasuMetrics ends in exactly one of
\* two ways: the object is constructed and is_pattaasu_compliant is true, or
\* construction is rejected with at least one violation listed; an object
\* that is constructed but not compliant is never produced.
C1_ConstructedIffCompliant ==
    op = "PattaasuMetrics" =>
        IF ret.ok
        THEN is_pattaasu_compliant(ret.obj) /\ "errors" \notin DOMAIN ret
        ELSE Len(ret.errors) >= 1 /\ "obj" \notin DOMAIN ret

C1_Witness ==
    /\ op = "PattaasuMetrics"
    /\ ret.ok
    /\ is_pattaasu_compliant(ret.obj)
    /\ ret.obj.debt_to_equity > 0

\* The scenario of section 8: D/E = 1.5, pledging = 10, FCF = [-100, 100, 100].
IsScenarioThreeViolations(m) ==
    /\ m.debt_to_equity = Num(150)
    /\ m.promoter_pledging_pct = Num(10)
    /\ m.free_cash_flow_year1 = Num(-100)
    /\ m.free_cash_flow_year2 = Num(100)
    /\ m.free_cash_flow_year3 = Num(100)

\* C2: strict construction checks all rules rather than stopping at the
\* first, so D/E = 1.5, pledging = 10, FCF = [-100, 100, 100] is rejected
\* with exactly 3 violations: debt, pledging and Year 1 FCF.
C2_ThreeViolations ==
    (op = "PattaasuMetrics" /\ IsScenarioThreeViolations(metrics)) =>
        /\ ~ret.ok
        /\ Len(ret.errors) = 3
        /\ \E i \in 1..Len(ret.errors) : ret.errors[i].loc = "debt_to_equity"
        /\ \E i \in 1..Len(ret.errors) : ret.errors[i].loc = "promoter_pledging_pct"
        /\ \E i \in 1..Len(ret.errors) :
               /\ ret.errors[i].type = "negative_fcf"
               /\ ret.errors[i].years = <<"Year 1">>

\* C4: quick_validate applies the same three rule checks as strict
\* construction: it returns is_compliant = TRUE exactly when construction
\* from the same values succeeds, including rule 1's D/E >= 0.  Stated here
\* for the mappings that hold all five values with pledging a percentage.
C4_QuickAgreesWithConstruction ==
    (/\ op = "quick_validate"
     /\ AllPresent(metrics)
     /\ DecimalOf(metrics.promoter_pledging_pct) \in 0..100) =>
        ret.is_compliant = PattaasuMetrics(metrics).ok

---------------------------------------------------------------------------
(* Claims about the risk assessor *)

FiveLevels(r) ==
    <<r.leverage_risk, r.liquidity_risk, r.governance_risk, r.market_risk, r.sector_risk>>

IsLevels(r, l1, l2, l3, l4, l5) ==
    \A level \in {"low", "medium", "high", "critical"} :
        CountLevel(FiveLevels(r), level) = CountLevel(<<l1, l2, l3, l4, l5>>, level)

---------------------------------------------------------------------------
(* Claims about generate_rating *)

IsScenarioRating ==
    /\ fundamental = FundamentalScore(90, TRUE, TRUE)
    /\ technical = TechnicalScore(70)
    /\ IsNone(sentiment)
    /\ IsNone(butterfly)

\* C3, as stated: a fundamental score of 90 with both compliance flags true,
\* a technical strength of 70 and no sentiment and no geopolitical input
\* give rating BUY with confidence 72 (weighted total 62.5, plus 10 = 72.5).
C3_ScenarioBuy72 ==
    (rated.k = "rated" /\ IsScenarioRating) =>
        /\ rated.weighted = 12500
        /\ rated.adjusted = 14500
        /\ Returned(rated) = <<"BUY", 72>>

\* C3, amended: the same inputs give a weighted total of
\* 90 * 0.5 + 70 * 0.25 + 50 * 0.15 + 50 * 0.10 = 75, plus the +10 Pattaasu
\* bonus = 85, so rating STRONG_BUY with confidence min(95, 85) = 85.
C3_ScenarioStrongBuy85 ==
    (rated.k = "rated" /\ IsScenarioRating) =>
        /\ rated.weighted = 15000
        /\ rated.adjusted = 17000
        /\ Returned(rated) = <<"STRONG_BUY", 85>>

C3_Witness == rated.k = "rated" /\ IsScenarioRating

\* C6: the rating bands are contiguous, cover every clamped total in
\* [0, 100] and include their lower bound: >= 80 STRONG_BUY, >= 65 BUY,
\* >= 45 HOLD, >= 30 SELL, otherwise STRONG_SELL; the totals 0, 29, 30, 44,
\* 45, 64, 65, 79, 80, 100 map to STRONG_SELL, STRONG_SELL, SELL, SELL, HOLD,
\* HOLD, BUY, BUY, STRONG_BUY, STRONG_BUY.
C6_RatingBands ==
    rated.k = "rated" =>
        LET t == rated.total
            r == rated.rating
        IN  /\ 0 <= t /\ t <= 100 * 200
            /\ (r = "STRONG_BUY") <=> (80 * 200 <= t)
            /\ (r = "BUY") <=> (65 * 200 <= t /\ t < 80 * 200)
            /\ (r = "HOLD") <=> (45 * 200 <= t /\ t < 65 * 200)
            /\ (r = "SELL") <=> (30 * 200 <= t /\ t < 45 * 200)
            /\ (r = "STRONG_SELL") <=> (t < 30 * 200)
            /\ t \in {0 * 200, 29 * 200} => r = "STRONG_SELL"
            /\ t \in {30 * 200, 44 * 200} => r = "SELL"
            /\ t \in {45 * 200, 64 * 200} => r = "HOLD"
            /\ t \in {65 * 200, 79 * 200} => r = "BUY"
            /\ t \in {80 * 200, 100 * 200} => r = "STRONG_BUY"

C6_Witness == rated.k = "rated" /\ rated.total = 65 * 200 /\ rated.rating = "BUY"

\* C7: for every clamped total the confidence is min(95, floor(total)) for
\* STRONG_BUY, min(85, floor(total)) for BUY, the constant 60 for HOLD,
\* min(75, 100 - floor(total)) for SELL and min(90, 100 - floor(total)) for
\* STRONG_SELL.
C7_Confidence ==
    rated.k = "rated" =>
        LET floor == CHOOSE n \in 0..100 :
                         n * 200 <= rated.total /\ (rated.total < (n + 1) * 200)
            c == rated.confidence
        IN  /\ rated.rating = "STRONG_BUY" => c = Min(95, floor)
            /\ rated.rating = "BUY" => c = Min(85, floor)
            /\ rated.rating = "HOLD" => c = 60
            /\ rated.rating = "SELL" => c = Min(75, 100 - floor)
            /\ rated.rating = "STRONG_SELL" => c = Min(90, 100 - floor)

C7_Witness ==
    /\ rated.k = "rated"
    /\ rated.rating = "STRONG_SELL"
    /\ rated.total % 200 # 0
    /\ rated.confidence = 90

\* C8: the Pattaasu adjustment added to the weighted total is +10 exactly
\* when both the debt and the FCF flag are true, -15 exactly when the debt
\* flag is false (whatever the FCF flag) and 0 when the debt flag is true and
\* the FCF flag false; it is applied only when a fundamental score is given,
\* and the adjusted total is then clamped to [0, 100].
C8_PattaasuAdjustment ==
    rated.k = "rated" =>
        LET adj == rated.adjusted - rated.weighted
        IN  /\ IsNone(fundamental) => adj = 0
            /\ ~IsNone(fundamental) =>
                   /\ (adj = 10 * 200) <=>
                          (fundamental.pattaasu_debt_ok /\ fundamental.pattaasu_fcf_ok)
                   /\ (adj = 0 - 15 * 200) <=> ~fundamental.pattaasu_debt_ok
                   /\ (fundamental.pattaasu_debt_ok /\ ~fundamental.pattaasu_fcf_ok) => adj = 0
            /\ rated.total = (IF rated.adjusted < 0 THEN 0
                              ELSE IF rated.adjusted > 100 * 200 THEN 100 * 200
                              ELSE rated.adjusted)

C8_Witness ==
    /\ rated.k = "rated"
    /\ ~IsNone(fundamental)
    /\ ~fundamental.pattaasu_debt_ok
    /\ fundamental.pattaasu_fcf_ok
    /\ rated.adjusted = rated.weighted - 15 * 200
    /\ rated.adjusted < 0
    /\ rated.total = 0

\* C9: a missing sentiment or geopolitical input is scored as the neutral
\* midpoint 50 with its full weight: with sentiment absent generate_rating
\* returns the same (rating, confidence) as with raw sentiment 0, and with
\* the geopolitical input absent the same as with raw geo score 0.
C9_MissingIsNeutral ==
    rated.k = "rated" =>
        /\ IsNone(sentiment) =>
               /\ Returned(rated) = Returned(generate_rating(analyzers[1],
                      fundamental, technical, SentimentScore(0), butterfly))
               /\ rated.weighted - weighted_total(fundamental, technical,
                      SentimentScore(-100), butterfly) = 2 * 50 * 15
        /\ IsNone(butterfly) =>
               /\ Returned(rated) = Returned(generate_rating(analyzers[1],
                      fundamental, technical, sentiment, ButterflyEffect(0)))
               /\ rated.weighted - weighted_total(fundamental, technical,
                      sentiment, ButterflyEffect(-50)) = 2 * 50 * 10

C9_Witness ==
    /\ rated.k = "rated"
    /\ IsNone(sentiment)
    /\ ~IsNone(butterfly)
    /\ ~IsNone(fundamental)
    /\ rated.rating = "HOLD"

\* C10: generate_rating is deterministic and stateless: calls with identical
\* arguments, in any order relative to other calls on the same or another
\* analyzer, return identical (rating, confidence) tuples, and a call
\* modifies neither its arguments nor any analyzer's state.
C10_SameArgumentsSameResult ==
    \A h1 \in history : \A h2 \in history :
        h1.args = h2.args => h1.returned = h2.returned

C10_CallLeavesStateAlone ==
    (ncalls' # ncalls) => (argVars' = argVars /\ analyzers' = analyzers)

---------------------------------------------------------------------------
(* Claims about pattaasu_score *)

\* C11: for every successfully constructed PattaasuMetrics, pattaasu_score
\* is the debt sub-score (30 if D/E = 0, 25 if < 0.1, 20 if < 0.3, 15 if
\* < 0.5, else 10) plus 25 if pledging = 0 plus 25 if the 3-year average FCF
\* is positive plus the moat sub-score (wide 20, narrow 10, none 0); D/E = 0,
\* pledging = 0, FCF = [100, 90, 80], moat = wide constructs with score 100.
C11_PattaasuScore ==
    op = "PattaasuMetrics" =>
        /\ ret.ok =>
               LET p == ret.obj
                   debt == IF p.debt_to_equity = 0 THEN 30
                           ELSE IF 10 * p.debt_to_equity < 1 * 100 THEN 25
                           ELSE IF 10 * p.debt_to_equity < 3 * 100 THEN 20
                           ELSE IF 10 * p.debt_to_equity < 5 * 100 THEN 15
                           ELSE 10
                   pledging == IF p.promoter_pledging_pct = 0 THEN 25 ELSE 0
                   total_fcf == p.free_cash_flow_year1 + p.free_cash_flow_year2
                                    + p.free_cash_flow_year3
                   \* the average total_fcf / 3 is positive exactly when the total is
                   fcf == IF total_fcf > 0 THEN 25 ELSE 0
                   moat == IF p.moat_rating = "wide" THEN 20
                           ELSE IF p.moat_rating = "narrow" THEN 10 ELSE 0
               IN  p.pattaasu_score = debt + pledging + fcf + moat
        /\ metrics = ScoreCalculationMetrics =>
               ret.ok /\ ret.obj.pattaasu_score = 100

C11_Witness ==
    /\ op = "PattaasuMetrics"
    /\ metrics = ScoreCalculationMetrics
    /\ ret.ok
    /\ ret.obj.pattaasu_score = 100

\* The constructible mappings that differ from m at most in debt_to_equity.
DifferOnlyInDE(m) ==
    {m2 \in {[m EXCEPT !.debt_to_equity = de] : de \in DEValues} : PattaasuMetrics(m2).ok}

\* C12: pattaasu_score does not decrease as debt_to_equity decreases: of two
\* constructible inputs that differ only in D/E, the one with the smaller
\* D/E has a score greater than or equal to the other's.
C12_ScoreMonotoneInDE ==
    (op = "PattaasuMetrics" /\ ret.ok) =>
        \A m2 \in DifferOnlyInDE(metrics) :
            DecimalOf(m2.debt_to_equity) <= ret.obj.debt_to_equity
                => PattaasuMetrics(m2).obj.pattaasu_score >= ret.obj.pattaasu_score

C12_Witness ==
    /\ op = "PattaasuMetrics"
    /\ ret.ok
    /\ ret.obj.debt_to_equity = 50
    /\ \E m2 \in DifferOnlyInDE(metrics) :
           /\ DecimalOf(m2.debt_to_equity) = 45
           /\ PattaasuMetrics(m2).obj.pattaasu_score > ret.obj.pattaasu_score

---------------------------------------------------------------------------
(* Claims about FinancialMetrics.debt_to_equity *)

\* C13: FinancialMetrics.debt_to_equity, read at any time, is recomputed
\* from the current total_debt and total_equity: it is total_debt /
\* total_equity when equity > 0, the sentinel 999.99 when equity <= 0 (never
\* a division error), and None when either field is absent.
C13_DebtToEquityIsCurrent ==
    d_e_read # NotRun =>
        IF IsNone(fin.total_debt) \/ IsNone(fin.total_equity) THEN d_e_read = None
        ELSE /\ d_e_read.k = "ratio"
             /\ d_e_read.d > 0
             /\ fin.total_equity.v > 0 => d_e_read.n * fin.total_equity.v = fin.total_debt.v * d_e_read.d
             /\ fin.total_equity.v <= 0 => d_e_read.n * 100 = 99999 * d_e_read.d

\* the property is read after an assignment brought equity to 0
C13_Witness ==
    /\ d_e_read # NotRun
    /\ fin.total_equity = Num(0)
    /\ fin.total_debt = Num(MaxDebt)
    /\ d_e_read = Ratio(99999, 100)

---------------------------------------------------------------------------
(* Claims about raw input: unparseable and absent values *)

\* The mapping with None in the place of every value that does not parse.
UnparseableAsNone(m) == [key \in DOMAIN m |-> IF m[key].k = "str" THEN None ELSE m[key]]

\* C14: an input field that cannot be parsed as a number is treated as
\* absent by the engine's coercion (_to_decimal in analyze_fundamentals and
\* analyze_technicals, the Decimal conversions of quick_validate): the call
\* returns the result it returns without that value and never raises
\* because of it.
C14_UnparseableIsAbsent ==
    /\ op = "analyze_fundamentals" =>
           /\ ~IsRaise(ret)
           /\ ret = analyze_fundamentals(analyzers[1], UnparseableAsNone(metrics))
    /\ op = "analyze_technicals" =>
           /\ ~IsRaise(ret)
           /\ ret = analyze_technicals(analyzers[1], UnparseableAsNone(metrics))
    /\ op = "quick_validate" =>
           /\ ~IsRaise(ret)
           /\ ret = quick_validate(UnparseableAsNone(metrics))

\* The constrained fields of FinancialMetrics that hold a negative number.
NegativeConstrained(m) ==
    {key \in {"total_debt"} : m[key].k = "num" /\ m[key].v < 0}

\* C15: FinancialMetrics construction from a raw mapping is rejected only
\* when a field with a non-negativity constraint holds a negative value; any
\* other invalid or unparseable value yields an object in which that field
\* is None, and a field without the constraint (equity) accepts a negative
\* value.
C15_RejectsOnlyNegatives ==
    op = "FinancialMetrics" =>
        /\ ret.ok <=> NegativeConstrained(metrics) = {}
        /\ ret.ok =>
               /\ metrics.total_equity = Unparseable => IsNone(ret.obj.total_equity)
               /\ metrics.total_debt = Unparseable => IsNone(ret.obj.total_debt)
               /\ metrics.total_equity = Num(-10) => ret.obj.total_equity = Num(-10)

\* C16: a field that is absent from the raw input propagates as unknown and
\* is never replaced by zero or another number when compliance is
\* evaluated: the FundamentalScore of analyze_fundamentals holds no
\* debt_to_equity and no true debt flag for a mapping without one, and
\* full_analysis returns no PattaasuMetrics, and so no compliant verdict,
\* that holds a number for debt_to_equity, promoter_pledging_pct or an FCF
\* year the mapping lacks.
C16_AbsentIsNeverANumber ==
    /\ (op = "analyze_fundamentals" /\ ~IsRaise(ret) /\ metrics.debt_to_equity = Absent) =>
           IsNone(ret.debt_to_equity)
    /\ (op = "full_analysis" /\ ~IsRaise(ret) /\ ret.is_pattaasu_compliant) =>
           \A i \in DOMAIN QuickKeys : metrics[QuickKeys[i]] # Absent

---------------------------------------------------------------------------
(* Claims about the component risk levels *)

BothPresent(a, b) == ~IsNone(a) /\ ~IsNone(b)

\* C17: liquidity risk is derived from cash / total_liabilities whenever
\* both values are present: ratio > 0.2 is low, ratio > 0.1 is medium, any
\* other ratio (a cash balance of exactly 0 included) is high with a risk
\* factor appended; it is medium only when the ratio is not computable
\* because a value is missing.  Stated for liabilities > 0, where the ratio
\* exists.
C17_LiquidityRisk ==
    risk # NotRun =>
        LET cash == fin.cash_and_equivalents
            liabilities == fin.total_liabilities
            limited == \E i \in DOMAIN risk.risk_factors :
                           risk.risk_factors[i] = "Limited liquidity buffer"
        IN  /\ ~BothPresent(cash, liabilities) => risk.liquidity_risk = "medium"
            /\ (BothPresent(cash, liabilities) /\ liabilities.v > 0) =>
                   /\ risk.liquidity_risk =
                          (IF 10 * cash.v > 2 * liabilities.v THEN "low"
                           ELSE IF 10 * cash.v > 1 * liabilities.v THEN "medium"
                           ELSE "high")
                   /\ risk.liquidity_risk = "high" <=> limited

\* C18: leverage risk is a function of FinancialMetrics.debt_to_equity:
\* < 0.3 is low, < 0.7 is medium, < 1.0 is high, otherwise (the 999.99
\* sentinel for equity <= 0 included) critical; when D/E is unknown because
\* debt or equity is missing it is medium, never low.
C18_LeverageRisk ==
    risk # NotRun =>
        LET debt == fin.total_debt
            equity == fin.total_equity
        IN  risk.leverage_risk =
                (IF ~BothPresent(debt, equity) THEN "medium"
                 ELSE IF equity.v <= 0 THEN "critical"
                 ELSE IF 10 * debt.v < 3 * equity.v THEN "low"
                 ELSE IF 10 * debt.v < 7 * equity.v THEN "medium"
                 ELSE IF 10 * debt.v < 10 * equity.v THEN "high"
                 ELSE "critical")

C18_Witness ==
    /\ risk # NotRun
    /\ fin.total_debt = Num(0)
    /\ fin.total_equity = Num(0)
    /\ risk.leverage_risk = "critical"

\* C19: governance risk is high when Pattaasu metrics are supplied with
\* pledging > 0, low when they are supplied with pledging = 0, and medium
\* when none are supplied; market risk and sector risk are medium when no
\* external context specifies them.
C19_GovernanceRisk ==
    risk # NotRun =>
        /\ risk.governance_risk =
               (IF IsNone(pattaasu) THEN "medium"
                ELSE IF pattaasu.promoter_pledging_pct > 0 THEN "high"
                ELSE "low")
        /\ risk.market_risk = "medium"
        /\ risk.sector_risk = "medium"

C19_Witness ==
    /\ risk # NotRun
    /\ ~IsNone(pattaasu)
    /\ pattaasu.promoter_pledging_pct > 0
    /\ risk.governance_risk = "high"

---------------------------------------------------------------------------
(* Claims about generate_bull_bear_cases *)

Texts(list) == [i \in DOMAIN list |-> list[i].text]
\* the entries of list whose text is in texts, in the order of the list
Only(list, texts) == SelectSeq(list, LAMBDA e : e.text \in texts)
Count(list, texts) == Len(Only(list, texts))
\* the entries with a text of earlier come before those with a text of later
Before(list, earlier, later) ==
    \A i, j \in DOMAIN list :
        (list[i].text \in earlier /\ list[j].text \in later) => i < j

DebtBull == {"Low debt levels (Pattaasu compliant)"}
DebtBear == {"High debt-to-equity ratio"}
FcfBull == {"Consistent positive free cash flow"}
FcfBear == {"Inconsistent cash generation"}
RoeBull == {"Strong ROE of"}
ProfitBull == {"High profitability metrics"}
ProfitBear == {"Weak profitability"}
TrendUp == {"Price in Strong Uptrend", "Price in Uptrend"}
TrendDown == {"Price in Strong Downtrend", "Price in Downtrend"}

\* C20: generate_bull_bear_cases evaluates every rule and appends in the
\* fixed order debt, FCF, ROE, profitability, trend.  The debt rule adds
\* exactly one bull entry when the debt flag is true and otherwise one bear
\* entry and the key risk "Leverage risk in downturn", so key_risks is
\* non-empty iff the debt flag is false; the FCF rule adds one bull or one
\* bear entry; profitability >= 20 adds a bull, <= 10 a bear, and a value
\* strictly between adds nothing; an up or strong-up trend adds a bull, a
\* down or strong-down trend a bear, sideways nothing.
C20_BullBearCases ==
    (cases # NotRun /\ ~IsNone(fundamental) /\ ~IsNone(technical)) =>
        LET f == fundamental
            bull == cases.bull_case
            bear == cases.bear_case
            n(b) == IF b THEN 1 ELSE 0
        IN  /\ Count(bull, DebtBull) = n(f.pattaasu_debt_ok)
            /\ Count(bear, DebtBear) = n(~f.pattaasu_debt_ok)
            /\ Texts(cases.risks) =
                   (IF f.pattaasu_debt_ok THEN <<>> ELSE <<"Leverage risk in downturn">>)
            /\ cases.risks # <<>> <=> ~f.pattaasu_debt_ok
            /\ Count(bull, FcfBull) = n(f.pattaasu_fcf_ok)
            /\ Count(bear, FcfBear) = n(~f.pattaasu_fcf_ok)
            /\ Count(bull, ProfitBull) = n(f.profitability_score >= 20)
            /\ Count(bear, ProfitBear) = n(f.profitability_score <= 10)
            /\ Count(bull, TrendUp) = n(technical.trend \in {"Strong Uptrend", "Uptrend"})
            /\ Count(bear, TrendDown) =
                   n(technical.trend \in {"Strong Downtrend", "Downtrend"})
            /\ Len(bull) = Count(bull, DebtBull \cup FcfBull \cup RoeBull \cup ProfitBull
                                           \cup TrendUp)
            /\ Len(bear) = Count(bear, DebtBear \cup FcfBear \cup ProfitBear \cup TrendDown)
            /\ Before(bull, DebtBull, FcfBull \cup RoeBull \cup ProfitBull \cup TrendUp)
            /\ Before(bull, FcfBull, RoeBull \cup ProfitBull \cup TrendUp)
            /\ Before(bull, RoeBull, ProfitBull \cup TrendUp)
            /\ Before(bull, ProfitBull, TrendUp)
            /\ Before(bear, DebtBear, FcfBear \cup ProfitBear \cup TrendDown)
            /\ Before(bear, FcfBear, ProfitBear \cup TrendDown)
            /\ Before(bear, ProfitBear, TrendDown)

\* every rule has appended: a bear and a risk from the debt rule, bulls from
\* the FCF, ROE and profitability rules, a bear from the trend
C20_Witness ==
    /\ cases # NotRun
    /\ ~IsNone(fundamental)
    /\ ~fundamental.pattaasu_debt_ok
    /\ fundamental.profitability_score = 20
    /\ Texts(cases.bull_case) =
           <<"Consistent positive free cash flow", "Strong ROE of",
             "High profitability metrics">>
    /\ Texts(cases.bear_case) = <<"High debt-to-equity ratio", "Price in Strong Downtrend">>
    /\ Len(cases.risks) = 1


---------------------------------------------------------------------------
(* Claims about quick_validate's error list, the moat back-fill and scores *)

\* The entry of quick_validate for each of its five checks, in the order
\* debt, pledging, FCF Year 1, Year 2, Year 3.
QuickEntries ==
    <<"Debt-to-Equity", "Promoter pledging", "Negative FCF in Year 1",
      "Negative FCF in Year 2", "Negative FCF in Year 3">>

\* Check i of the five is violated by the mapping m.
QuickViolated(m, i) ==
    LET x == m[QuickKeys[i]]
    IN  /\ ~IsNone(x)
        /\ CASE i = 1 -> x.v >= 100
             [] i = 2 -> x.v > 0
             [] OTHER -> x.v <= 0

\* The entries of the violated checks of m, in the order of the checks.
RECURSIVE QuickExpected(_, _)
QuickExpected(m, i) ==
    IF i > 5 THEN <<>>
    ELSE (IF QuickViolated(m, i) THEN <<QuickEntries[i]>> ELSE <<>>)
         \o QuickExpected(m, i + 1)

\* D/E 1.5, pledging 10 %, FCF [-100, 100, 100].
ThreeViolations ==
    /\ metrics.debt_to_equity = Num(150)
    /\ metrics.promoter_pledging_pct = Num(10)
    /\ metrics.free_cash_flow_year1 = Num(-100)
    /\ metrics.free_cash_flow_year2 = Num(100)
    /\ metrics.free_cash_flow_year3 = Num(100)

\* C21: for numeric (or None) input quick_validate does not raise and returns
\* one entry per violated check - D/E >= 1.0, pledging > 0, and each FCF year
\* <= 0 under its own year - in the order debt, pledging, Year 1, Year 2,
\* Year 3; the boolean is true exactly when the list is empty; D/E 1.5 with
\* pledging 10 and FCF [-100, 100, 100] gives false with three entries.
C21_QuickValidateCollectsAll ==
    op = "quick_validate" =>
        /\ ~IsRaise(ret)
        /\ ret.errors = QuickExpected(metrics, 1)
        /\ ret.is_compliant = (ret.errors = <<>>)
        /\ ThreeViolations =>
               /\ ret.is_compliant = FALSE
               /\ Len(ret.errors) = 3

\* quick_validate has answered the three-violation scenario.
C21_Witness ==
    /\ op = "quick_validate"
    /\ ThreeViolations
    /\ ret.errors = <<"Debt-to-Equity", "Promoter pledging",
                      "Negative FCF in Year 1">>

\* The PattaasuMetrics that full_analysis constructs from its financial_data,
\* or None.
Constructed == validate_pattaasu(pattaasu_data(metrics))

\* full_analysis has run its qualitative analysis: the analyzer has a manager
\* and the description is not empty.
Analysed == analyzer = WithLLM /\ company_description # ""

\* C22: after construction a PattaasuMetrics is changed only by the moat
\* back-fill of full_analysis, which overwrites moat_rating and
\* moat_reasoning with the result of the moat analysis and leaves every
\* other field, the score included, and is_pattaasu_compliant as they were;
\* it runs only when the object was constructed and a qualitative analysis
\* was performed, and otherwise the object returned is the one constructed.
C22_MoatBackFillOnly ==
    (op = "full_analysis" /\ ~IsRaise(ret)) =>
        /\ IsNone(Constructed) => IsNone(ret.pattaasu)
        /\ ~IsNone(Constructed) =>
               /\ ~IsNone(ret.pattaasu)
               /\ \A f \in DOMAIN Constructed \ {"moat_rating", "moat_reasoning"} :
                      ret.pattaasu[f] = Constructed[f]
               /\ is_pattaasu_compliant(ret.pattaasu)
                      = is_pattaasu_compliant(Constructed)
               /\ Analysed =>
                      /\ ret.pattaasu.moat_rating = moat_reply.rating
                      /\ ret.pattaasu.moat_reasoning = moat_reply.reasoning
               /\ ~Analysed => ret.pattaasu = Constructed

\* The back-fill has written a wide moat into an object constructed with the
\* default rating.
C22_Witness ==
    /\ op = "full_analysis"
    /\ ~IsRaise(ret)
    /\ Analysed
    /\ ~IsNone(Constructed)
    /\ Constructed.moat_rating = "none"
    /\ ret.pattaasu.moat_rating = "wide"
    /\ ret.pattaasu.moat_reasoning = "Pricing power"

\* The score of section 4.2 computed from the fields an object holds now.
ScoreOfFields(p) ==
    calculate_pattaasu_score(p.debt_to_equity, p.promoter_pledging_pct,
                             p.free_cash_flow_year1, p.free_cash_flow_year2,
                             p.free_cash_flow_year3, p.moat_rating)

\* C23: for every PattaasuMetrics returned inside a StockAnalysis, after the
\* moat back-fill too, pattaasu_score equals the score formula applied to
\* the object's current fields, moat_rating included, and the
\* StockAnalysis's pattaasu_score equals it.
C23_ScoreOfCurrentFields ==
    (op = "full_analysis" /\ ~IsRaise(ret) /\ ~IsNone(ret.pattaasu)) =>
        /\ ret.pattaasu.pattaasu_score = ScoreOfFields(ret.pattaasu)
        /\ ret.pattaasu_score = ScoreOfFields(ret.pattaasu)

\* C24: every PattaasuMetrics that is constructed successfully has a
\* pattaasu_score of at least 60 and at most 100.
C24_ConstructedScoreRange ==
    /\ (op = "PattaasuMetrics" /\ ret.ok) =>
           /\ ret.obj.pattaasu_score >= 60
           /\ ret.obj.pattaasu_score <= 100
    /\ (op = "validate_pattaasu" /\ ~IsNone(ret)) =>
           /\ ret.pattaasu_score >= 60
           /\ ret.pattaasu_score <= 100

\* An object was constructed with the lowest score: D/E of 0.5 or more and
\* no moat.
C24_Witness ==
    /\ op = "PattaasuMetrics"
    /\ ret.ok
    /\ ret.obj.debt_to_equity >= 50
    /\ ret.obj.moat_rating = "none"
    /\ ret.obj.pattaasu_score = 60

\* generate_recommendation has run on the analysis that full_analysis returned.
Recommended == recommendation.k = "InvestmentRecommendation"

\* C29: full_analysis followed by generate_recommendation rates only
\* STRONG_BUY, BUY or STRONG_SELL: STRONG_SELL exactly when the validation
\* rejected the company (is_pattaasu_compliant false, score 0), STRONG_BUY
\* only when D/E is 0 and the overall risk is low, BUY for every other
\* compliant company; HOLD and SELL are not reached.
C29_ReachableRatings ==
    Recommended =>
        /\ recommendation.rating \in {"strong_buy", "buy", "strong_sell"}
        /\ recommendation.rating = "strong_sell" <=> IsNone(Constructed)
        /\ IsNone(Constructed) =>
               /\ ret.is_pattaasu_compliant = FALSE
               /\ ret.pattaasu_score = 0
               /\ recommendation.pattaasu_score = 0
        /\ ~IsNone(Constructed) =>
               /\ ret.is_pattaasu_compliant = TRUE
               /\ recommendation.rating = "strong_buy" <=>
                      /\ Constructed.debt_to_equity = 0
                      /\ ret.risk.overall_risk = "low"
               /\ recommendation.rating # "strong_buy" =>
                      recommendation.rating = "buy"

\* A compliant company with D/E 0 whose overall risk is not low was rated
\* BUY after a wide moat was back-filled.
C29_Witness ==
    /\ Recommended
    /\ ~IsNone(Constructed)
    /\ Constructed.debt_to_equity = 0
    /\ ret.risk.overall_risk = "medium"
    /\ ret.pattaasu.moat_rating = "wide"
    /\ recommendation.rating = "buy"

\* C30: the confidence generate_rating returns lies in 56..95: 80..95 for
\* STRONG_BUY, 65..79 for BUY, 60 for HOLD, 56..70 for SELL and 71..90 for
\* STRONG_SELL; the caps 85 (BUY) and 75 (SELL) never bind, the confidence
\* there being int(total) and 100 - int(total); and the confidence is not
\* monotone in the total: a SELL whose total truncates to 44 has 56, below
\* the 60 of a HOLD at 45.
C30_ConfidenceRanges ==
    rated.k = "rated" =>
        /\ rated.confidence \in 56..95
        /\ rated.rating = "STRONG_BUY" => rated.confidence \in 80..95
        /\ rated.rating = "BUY" =>
               /\ rated.confidence \in 65..79
               /\ rated.confidence = int(rated.total)
               /\ int(rated.total) < 85
        /\ rated.rating = "HOLD" => rated.confidence = 60
        /\ rated.rating = "SELL" =>
               /\ rated.confidence \in 56..70
               /\ rated.confidence = 100 - int(rated.total)
               /\ 100 - int(rated.total) < 75
        /\ rated.rating = "STRONG_SELL" => rated.confidence \in 71..90
        /\ (rated.total < Pts(45) /\ int(rated.total) = 44) =>
               /\ rated.rating = "SELL"
               /\ rated.confidence = 56
        /\ rated.total = Pts(45) =>
               /\ rated.rating = "HOLD"
               /\ rated.confidence = 60

\* A SELL just below the HOLD band: the total truncates to 44 and the
\* confidence is 56.
C30_Witness ==
    /\ rated.k = "rated"
    /\ rated.rating = "SELL"
    /\ int(rated.total) = 44
    /\ rated.confidence = 56

---------------------------------------------------------------------------
(* Claims about LLMManager and the ingestion task *)

\* A list without the later occurrences of its members.
RECURSIVE Dedup(_, _)
Dedup(list, seen) ==
    IF list = <<>> THEN <<>>
    ELSE IF Head(list) \in seen THEN Dedup(Tail(list), seen)
    ELSE <<Head(list)>> \o Dedup(Tail(list), seen \cup {Head(list)})

\* The order preferred, default, fallback, remaining enabled providers of
\* the call in progress, and the available providers in that order.
ExpectedOrder ==
    Dedup((IF request.provider # NoProvider THEN <<request.provider>> ELSE <<>>)
          \o <<config.default_provider, config.fallback_provider>>
          \o Keep(ProviderOrder, config.enabled), {})
Callable == Keep(ExpectedOrder, is_available)

\* The providers the latest pass called, in the order of the calls.
TriedProviders == [i \in 1..Len(request.tried) |-> request.tried[i].provider]

\* C26: within one attempt complete tries the providers in the order
\* preferred, default, fallback, remaining enabled, each at most once and
\* skipping the unavailable ones; it returns the response of the first
\* provider that does not raise and calls no provider after it; it raises
\* only when every provider was unavailable or raised, re-raising the last
\* provider's error, or RuntimeError when none was attempted; afterwards
\* the cached health is true for the provider that answered and false for
\* each provider that raised.
C26_CompleteFallbackOrder ==
    (request.method = "complete" /\ request.attempt >= 1) =>
        /\ Len(request.tried) <= Len(Callable)
        /\ TriedProviders = SubSeq(Callable, 1, Len(request.tried))
        /\ \A i \in 1..Len(request.tried) :
               /\ \A j \in 1..Len(request.tried) :
                      i # j => request.tried[i].provider # request.tried[j].provider
               /\ i < Len(request.tried) => request.tried[i].outcome # "response"
               /\ request.tried[i].provider \in DOMAIN _health_status
               /\ _health_status[request.tried[i].provider]
                      = (request.tried[i].outcome = "response")
        /\ ~IsRaise(request.result) =>
               /\ request.tried # <<>>
               /\ request.tried[Len(request.tried)].outcome = "response"
               /\ request.result
                      = LLMResponse(request.tried[Len(request.tried)].provider)
        /\ IsRaise(request.result) =>
               /\ TriedProviders = Callable
               /\ \A i \in 1..Len(request.tried) :
                      request.tried[i].outcome # "response"
               /\ request.tried = <<>> => request.result = Raise("RuntimeError")
               /\ request.tried # <<>> =>
                      request.result
                          = ProviderError(request.tried[Len(request.tried)].provider,
                                          request.tried[Len(request.tried)].outcome)

\* The preferred provider and the next in the chain raised and the third
\* provider answered.
C26_Witness ==
    /\ request.method = "complete"
    /\ request.provider # NoProvider
    /\ Len(request.tried) = 3
    /\ request.tried[1].provider = request.provider
    /\ request.tried[3].outcome = "response"
    /\ request.state = "returned"

\* C28: complete ends after at most three attempts: a whole pass is repeated
\* only when the error that escaped it is a ConnectionError or a
\* TimeoutError; any other error is raised after the pass it escaped from,
\* the first included; after a third failed pass its error is re-raised.
C28_AtMostThreeAttempts ==
    request.method = "complete" =>
        /\ request.attempt <= 3
        /\ (request.state = "calling" /\ request.attempt >= 1) =>
               /\ IsRaise(request.result)
               /\ request.result.exc \in {"ConnectionError", "TimeoutError"}
               /\ request.attempt < 3
        /\ request.state = "returned" => ~IsRaise(request.result)
        /\ request.state = "raised" =>
               /\ IsRaise(request.result)
               /\ \/ request.attempt = 3
                  \/ request.result.exc \notin {"ConnectionError", "TimeoutError"}
        /\ (request.attempt >= 1 /\ IsRaise(request.result)
            /\ request.result.exc \notin {"ConnectionError", "TimeoutError"}) =>
               request.state = "raised"
        /\ (request.attempt = 3 /\ IsRaise(request.result)) =>
               request.state = "raised"

\* The third pass failed with a TimeoutError, which complete raised.
C28_Witness ==
    /\ request.method = "complete"
    /\ request.attempt = 3
    /\ request.state = "raised"
    /\ request.result.exc = "TimeoutError"

\* C25: stream falls back to another provider only before streaming has
\* started: once a chunk was yielded, a failure of the provider that
\* yielded it is raised to the consumer, and no chunk of another provider
\* follows.
C25_NoFallbackAfterChunk ==
    request.method = "stream" =>
        /\ \A i, j \in 1..Len(request.yielded) :
               request.yielded[i] = request.yielded[j]
        /\ (~IsNone(request.last_error)
            /\ request.last_error.provider \in Members(request.yielded)) =>
               /\ request.state = "raised"
               /\ request.result = request.last_error

\* The failure whose handling queued the task again: the one logged last.
LastLogged == task.logged[Len(task.logged)]

\* C27: fetch_company_metrics never fails the surrounding chord: it is
\* queued again only while the failure type is retryable (rate limit,
\* timeout, network error) and fewer than 3 retries have been made, with a
\* countdown of 60 * (retries + 1) seconds, so it is executed at most 4
\* times, and its final execution returns a dict - success true with the
\* data, or success false with the failure object - instead of raising.
C27_TaskNeverFailsChord ==
    task # NotRun =>
        /\ task.state \in {"queued", "returned"}
        /\ task.executions <= 4
        /\ task.retries <= 3
        /\ (task.state = "queued" /\ task.retries >= 1) =>
               /\ task.executions = task.retries
               /\ LastLogged.failure_type \in {"rate_limit", "timeout", "network_error"}
               /\ LastLogged.retry_count = task.retries - 1
               /\ LastLogged.retry_count < 3
               /\ task.countdown = 60 * (LastLogged.retry_count + 1)
        /\ task.state = "returned" =>
               /\ task.result.success =>
                      DOMAIN task.result = {"success", "data"}
               /\ ~task.result.success =>
                      /\ DOMAIN task.result = {"success", "failure"}
                      /\ task.result.failure.failure_type = LastLogged.failure_type
                      /\ task.result.failure.retry_count = task.executions - 1
        /\ task.executions = 4 => task.state = "returned"

\* The fourth execution met a network error again and returned the failure
\* object.
C27_Witness ==
    /\ task # NotRun
    /\ task.executions = 4
    /\ task.state = "returned"
    /\ task.countdown = 180
    /\ task.result.success = FALSE
    /\ task.result.failure.failure_type = "network_error"
    /\ task.result.failure.retry_count = 3

=============================================================================
